---- MODULE Spec2Model ----
(***************************************************************************)
(* prompto: the Prompt Lifecycle Manager (PromptManager) and its           *)
(* transports, modelled from the TypeScript sources.                       *)
(*                                                                         *)
(* JavaScript values are tagged records: Undef, Null, Str, Tpl (a string   *)
(* that is a template body, kept as its token sequence), Bool, Num, Arr    *)
(* (an array of strings) and Obj (any other object).  The prompt hub       *)
(* (LangSmith Client, langchain pull/push) is the external collaborator:   *)
(* it is modelled by what each call returns and stores, and every call     *)
(* may instead be rejected with a transport error.                         *)
(*                                                                         *)
(* Each PromptManager method is one action, the whole handler: the hub     *)
(* calls it issues are appended to `calls`, its result is `outcome`.       *)
(* The PromptTemplate constructor is modelled as building the object; the  *)
(* library's own template validation is outside the model.                 *)
(***************************************************************************)
EXTENDS Integers, Sequences, FiniteSets, TLC

VARIABLES
    hub,       \* promptId -> stored prompt (record + serialized template) or absent
    repos,     \* the prompt records the hub's listing iterates over, in hub order
    env,       \* process.env.LANGSMITH_API_KEY
    op,        \* the operation invoked last, its arguments, and which of its
               \* hub calls the hub rejected (fault; 0 for none); for
               \* createPrompt, which never asks, also whether the id was
               \* stored when it was invoked (existed)
    calls,     \* the hub calls that operation issued, in order
    outcome,   \* how it ended: a returned value or a thrown error
    lastOk,    \* promptId -> last create/update/delete that succeeded on it
    cli,       \* the CLI command run last, with its options
    exitCode,  \* process.exitCode
    stderr,    \* the messages written to stderr, in order
    stdout,    \* the lines written to stdout, in order
    mcp,       \* the MCP tool call handled last, with what its handler gave
    rpc,       \* the JSON-RPC message handled last, with the response sent
    published, \* promptId -> the template the manager last published to it
               \* with success, none once deleted
    seen,      \* transport -> the request it handled last: the hub it met,
               \* the manager operation it made and how it ended
    running    \* invocation -> the manager operation it runs, the await
               \* point it stands at, what it has fetched and how it ended

cliVars == <<cli, exitCode, stderr>>
transportVars == <<cli, exitCode, stderr, stdout, mcp, rpc, seen, running>>
vars == <<hub, repos, env, op, calls, outcome, lastOk, cli, exitCode, stderr,
          stdout, mcp, rpc, published, seen, running>>

----------------------------------------------------------------------------
(* JavaScript values *)

Undef == [t |-> "undefined"]
Null == [t |-> "null"]
Obj == [t |-> "object"]
Str(s) == [t |-> "string", s |-> s]
Tpl(tokens) == [t |-> "string", tpl |-> tokens]
Bool(b) == [t |-> "boolean", b |-> b]
Num(n) == [t |-> "number", n |-> n]
Arr(xs) == [t |-> "array", xs |-> xs]

\* typeof v
TypeOf(v) ==
    IF v.t \in {"null", "array"} THEN "object" ELSE v.t

\* !v
IsFalsy(v) ==
    \/ v.t \in {"undefined", "null"}
    \/ v.t = "boolean" /\ ~v.b
    \/ v.t = "number" /\ v.n = 0
    \/ v.t = "string" /\ "s" \in DOMAIN v /\ v.s = ""
    \/ v.t = "string" /\ "tpl" \in DOMAIN v /\ v.tpl = <<>>
    \/ v.t = "string" /\ "text" \in DOMAIN v /\ v.text = <<>>

\* a ?? b
Coalesce(a, b) ==
    IF a.t \in {"undefined", "null"} THEN b ELSE a

----------------------------------------------------------------------------
(* How an operation ends *)

Returned(v) == [kind |-> "return", value |-> v]
Thrown(e) == [kind |-> "throw", error |-> e]
NoOutcome == [kind |-> "none"]
NoOp == [name |-> "none"]
NoCommand == [command |-> "none"]
NoTool == [tool |-> "none"]
NoMessage == [message |-> "none"]
NoPrompt == [template |-> "none"]
NotSeen == [request |-> "none"]
NoneSeen == [cli |-> NotSeen, mcp |-> NotSeen, rpc |-> NotSeen]
NoneRunning == <<>>

\* the hub rejects a call: the client's error is passed through unmodified
TransportError == "TransportError"

----------------------------------------------------------------------------
(* listPrompts *)

MaxList == 3

\* updated_at strings the hub sends; two of them spell the same instant
Timestamps ==
    {"2024-01-01T00:00:00.000Z", "2024-01-01T01:00:00.000+01:00",
     "2024-02-01T00:00:00.000Z"}

\* new Date(s).getTime(), in days since the epoch
GetTime(s) ==
    CASE s = "2024-01-01T00:00:00.000Z" -> 19723
      [] s = "2024-01-01T01:00:00.000+01:00" -> 19723
      [] s = "2024-02-01T00:00:00.000Z" -> 19754

\* the repo handle of the i-th record of the hub
FullName(i) ==
    CASE i = 1 -> "org/first"
      [] i = 2 -> "org/second"
      [] i = 3 -> "team/first"
      [] OTHER -> "team/other"

Queries == {Undef, Str("org"), Str("first")}

\* the hub's handle-substring filter
HandleContains(name, q) ==
    \/ q = "org" /\ name \in {"org/first", "org/second"}
    \/ q = "first" /\ name \in {"org/first", "team/first"}

PromptRecord(i, ts, pub, arch) ==
    [id |-> i, full_name |-> FullName(i), updated_at |-> ts,
     is_public |-> pub, is_archived |-> arch]

\* every listing of n records: record i is the i-th the hub holds
ReposOfLen(n) ==
    { [i \in 1..n |-> PromptRecord(i, f[i][1], f[i][2], f[i][3])] :
        f \in [1..n -> Timestamps \X BOOLEAN \X BOOLEAN] }

AllRepos == UNION { ReposOfLen(n) : n \in 0..MaxList }

\* client.listPrompts(request): the async iteration, collected by Array.fromAsync
HubListPrompts(rs, request) ==
    LET Match(r) ==
            /\ request.isPublic.t = "boolean" => r.is_public = request.isPublic.b
            /\ request.isArchived.t = "boolean" => r.is_archived = request.isArchived.b
            /\ request.query.t = "string" => HandleContains(r.full_name, request.query.s)
    IN  SelectSeq(rs, Match)

\* a listing request that leaves the visibility filter to the caller's query
ListRequestUnfiltered(query) ==
    [fn |-> "listPrompts", isPublic |-> Undef, isArchived |-> Bool(FALSE),
     query |-> query]

\* the argument of client.listPrompts
ListRequest(query) ==
    [fn |-> "listPrompts", isPublic |-> Bool(FALSE), isArchived |-> Bool(FALSE),
     query |-> query]

\* the comparator with its operands swapped (ascending order)
CompareUpdatedAscending(a, b) ==
    GetTime(a.updated_at) - GetTime(b.updated_at)

\* the sort comparator: (a, b) => getTime(b.updated_at) - getTime(a.updated_at)
CompareUpdated(a, b) ==
    GetTime(b.updated_at) - GetTime(a.updated_at)

\* Array.prototype.sort is stable: an element moves left only past elements
\* the comparator orders strictly after it
RECURSIVE InsertSorted(_, _)
InsertSorted(s, x) ==
    IF s = <<>> THEN <<x>>
    ELSE IF CompareUpdated(s[Len(s)], x) > 0
         THEN Append(InsertSorted(SubSeq(s, 1, Len(s) - 1), x), s[Len(s)])
         ELSE Append(s, x)

RECURSIVE SortPrompts(_)
SortPrompts(s) ==
    IF s = <<>> THEN <<>>
    ELSE InsertSorted(SortPrompts(SubSeq(s, 1, Len(s) - 1)), s[Len(s)])

\* PromptManager.listPrompts(query); the hub rejects the listing when fault = 1
ListPrompts(query, fault) ==
    /\ op' = [name |-> "listPrompts", query |-> query, fault |-> fault]
    /\ calls' = <<ListRequest(query)>>
    /\ outcome' = IF fault = 1 THEN Thrown(TransportError)
                  ELSE Returned(SortPrompts(HubListPrompts(repos, ListRequest(query))))
    /\ UNCHANGED <<hub, repos, env, lastOk, published>>

InitList ==
    /\ repos \in AllRepos
    /\ hub = <<>>
    /\ env = Str("env-key")
    /\ op = NoOp
    /\ calls = <<>>
    /\ outcome = NoOutcome
    /\ lastOk = <<>>
    /\ cli = NoCommand
    /\ exitCode = 0
    /\ stderr = <<>>
    /\ stdout = <<>>
    /\ mcp = NoTool
    /\ rpc = NoMessage
    /\ published = <<>>
    /\ seen = NoneSeen
    /\ running = NoneRunning

NextList ==
    \E query \in Queries, fault \in 0..1 :
        ListPrompts(query, fault) /\ UNCHANGED transportVars

SpecList == InitList /\ [][NextList]_vars

----------------------------------------------------------------------------
(* Templates and rendering *)

Lit(s) == <<"lit", s>>
Var(n) == <<"var", n>>

\* a rendered string, kept as its non-empty pieces; Text(<<>>) is ""
Text(pieces) == [t |-> "string", text |-> pieces]

\* a variables object { name: value, ... }
Map(m) == [t |-> "object", m |-> m]

MissingValue == "MissingValue"

\* what one template token renders to; <<>> for nothing
RenderToken(tok, m) ==
    IF tok[1] = "lit" THEN <<tok[2]>>
    ELSE IF tok[2] \in DOMAIN m THEN <<m[tok[2]]>>
    ELSE <<>>

RECURSIVE RenderTokens(_, _)
RenderTokens(tokens, m) ==
    IF tokens = <<>> THEN <<>>
    ELSE RenderToken(Head(tokens), m) \o RenderTokens(Tail(tokens), m)

\* promptTemplate.invoke(values): mustache renders a missing variable as
\* nothing, f-string interpolation throws on it
Invoke(pt, values) ==
    IF \E i \in 1..Len(pt.template.tpl) :
          /\ pt.template.tpl[i][1] = "var"
          /\ pt.template.tpl[i][2] \notin DOMAIN values.m
          /\ pt.templateFormat = Str("f-string")
    THEN Thrown(MissingValue)
    ELSE Returned(Text(RenderTokens(pt.template.tpl, values.m)))

----------------------------------------------------------------------------
(* The prompt hub, as seen through the client, pull and push *)

Ids == {"org/p", "org/q"}

Absent == [exists |-> FALSE]

\* a stored prompt: the Prompt record's metadata and the PromptTemplate manifest
Stored(template, format, variables, description, tags, readme, isPublic) ==
    [exists |-> TRUE, template |-> template, templateFormat |-> format,
     inputVariables |-> variables, description |-> description, tags |-> tags,
     readme |-> readme, is_public |-> isPublic]

\* client.promptExists(id)
HubExists(h, id) == h[id].exists

\* client.getPrompt(id): the Prompt record, null when there is none
HubGetPrompt(h, id) ==
    IF h[id].exists
    THEN [t |-> "object", description |-> h[id].description, tags |-> h[id].tags,
          readme |-> h[id].readme, is_public |-> h[id].is_public]
    ELSE Null

\* pull(id, {apiKey, includeModel: false}): the PromptTemplate object
HubPull(h, id) ==
    [template |-> h[id].template, templateFormat |-> h[id].templateFormat,
     inputVariables |-> h[id].inputVariables]

\* promptTemplate.serialize(); whether template_format is part of the
\* serialized form is the library's choice
Serialize(pt, withFormat) ==
    [template |-> pt.template,
     template_format |-> IF withFormat THEN pt.templateFormat ELSE Undef,
     input_variables |-> pt.inputVariables]

\* push(id, prompt, options): the hub stores the definition as a full overwrite
HubPush(h, id, prompt, options) ==
    [h EXCEPT ![id] = Stored(prompt.template, prompt.templateFormat,
                             prompt.inputVariables, options.description,
                             options.tags, options.readme, options.isPublic)]

\* a delete that empties the hub
HubDeleteAll(h, id) == [other \in DOMAIN h |-> Absent]

\* client.deletePrompt(id)
HubDelete(h, id) == [h EXCEPT ![id] = Absent]

\* the location push resolves to
Location(id) == [t |-> "string", url |-> id]

\* the hub calls an operation issues, each logged with what the hub answered
\* (Rejected when the call failed)
Rejected == [t |-> "rejected"]

ExistsCall(id, answer) == [fn |-> "promptExists", id |-> id, answer |-> answer]
GetPromptCall(id, answer) == [fn |-> "getPrompt", id |-> id, answer |-> answer]
PullCall(id, apiKey, answer) ==
    [fn |-> "pull", id |-> id, apiKey |-> apiKey, includeModel |-> FALSE,
     answer |-> answer]
PushCall(id, prompt, options, apiKey, answer) ==
    [fn |-> "push", id |-> id, prompt |-> prompt, options |-> options,
     apiKey |-> apiKey, answer |-> answer]
DeleteCall(id, answer) == [fn |-> "deletePrompt", id |-> id, answer |-> answer]

\* the existence probe of id against hub h, rejected or answered
Probe(h, id, rejected) ==
    ExistsCall(id, IF rejected THEN Rejected ELSE Bool(HubExists(h, id)))

----------------------------------------------------------------------------
(* PromptManager *)

NotFound == "NotFound"
UnsupportedTemplateType == "UnsupportedTemplateType"
UndeterminedTemplate == "UndeterminedTemplate"

\* new PromptTemplate({ template, templateFormat, inputVariables })
PromptTemplate(template, format, variables) ==
    [template |-> template, templateFormat |-> format, inputVariables |-> variables]

\* the templates last published to the prompts hub h holds
PublishedIn(h) ==
    [id \in Ids |->
        IF h[id].exists
        THEN PromptTemplate(h[id].template, h[id].templateFormat,
                            h[id].inputVariables)
        ELSE NoPrompt]

\* an absent prompt reported as an error, the way updatePrompt reports it
AbsentPromptThrows == Thrown(NotFound)

\* getPrompt when the probe reports the id absent: `if (!exists) return null`
AbsentPrompt == Returned(Null)

\* the template rendered without the caller's variables
PromptVariablesDropped(variables) == Map(<<>>)

\* the default parameter of getPrompt: promptVariables = {}
PromptVariables(variables) ==
    IF variables = Undef THEN Map(<<>>) ELSE variables

\* PromptManager.getPrompt(promptId, promptVariables = {}); the hub rejects
\* the fault-th call when fault > 0.  invoke resolves to a prompt value
\* object, so `prompt ? prompt.value : null` is prompt.value.
GetPrompt(apiKey, id, variables, fault) ==
    LET values == PromptVariables(variables)
        pt == HubPull(hub, id)
        rendered == Invoke(pt, values)
    IN  /\ op' = [name |-> "getPrompt", id |-> id, variables |-> variables,
                  apiKey |-> apiKey, fault |-> fault]
        /\ IF fault = 1
           THEN calls' = <<Probe(hub, id, TRUE)>> /\ outcome' = Thrown(TransportError)
           ELSE IF ~HubExists(hub, id)
           THEN calls' = <<Probe(hub, id, FALSE)>> /\ outcome' = AbsentPrompt
           ELSE /\ calls' = <<Probe(hub, id, FALSE),
                              PullCall(id, apiKey, IF fault = 2 THEN Rejected ELSE pt)>>
                /\ outcome' =
                     IF fault = 2 THEN Thrown(TransportError)
                     ELSE IF rendered.kind = "throw" THEN rendered
                     ELSE Returned(rendered.value)
        /\ UNCHANGED <<hub, repos, env, lastOk, published>>

\* the format PromptTemplate itself falls back to
LibraryTemplateFormat == Str("f-string")

\* the format createPrompt falls back to: `definition.templateFormat ?? "mustache"`
CreateTemplateFormat == Str("mustache")

\* createPrompt made to refuse an id that is already stored
CreatePromptIfAbsent(apiKey, id, definition, fault) ==
    /\ op' = [name |-> "createPrompt", id |-> id, definition |-> definition,
              apiKey |-> apiKey, fault |-> fault, existed |-> HubExists(hub, id)]
    /\ IF HubExists(hub, id)
       THEN /\ calls' = <<Probe(hub, id, FALSE)>>
            /\ outcome' = Thrown("AlreadyExists")
            /\ UNCHANGED <<hub, lastOk, published>>
       ELSE /\ calls' = <<Probe(hub, id, FALSE),
                          PushCall(id, PromptTemplate(definition.template,
                                                      definition.templateFormat,
                                                      definition.templateVariables),
                                   definition, apiKey, Location(id))>>
            /\ outcome' = Returned(Location(id))
            /\ hub' = [hub EXCEPT ![id] =
                          Stored(definition.template, definition.templateFormat,
                                 definition.templateVariables, definition.description,
                                 definition.tags, definition.readme, definition.isPublic)]
            /\ lastOk' = [lastOk EXCEPT ![id] = "createPrompt"]
            /\ published' = [published EXCEPT ![id] =
                              PromptTemplate(definition.template,
                                             definition.templateFormat,
                                             definition.templateVariables)]
    /\ UNCHANGED <<repos, env>>

\* PromptManager.createPrompt(promptId, definition)
CreatePrompt(apiKey, id, definition, fault) ==
    LET templateFormat == Coalesce(definition.templateFormat, CreateTemplateFormat)
        templateVariables == Coalesce(definition.templateVariables, Arr(<<>>))
        promptTemplate ==
            PromptTemplate(definition.template, templateFormat, templateVariables)
        options == [description |-> definition.description,
                    tags |-> definition.tags,
                    readme |-> definition.readme,
                    isPublic |-> Coalesce(definition.isPublic, Bool(FALSE))]
    IN  /\ op' = [name |-> "createPrompt", id |-> id, definition |-> definition,
                  apiKey |-> apiKey, fault |-> fault,
                  existed |-> HubExists(hub, id)]
        /\ calls' = <<PushCall(id, promptTemplate, options, apiKey,
                               IF fault = 1 THEN Rejected ELSE Location(id))>>
        /\ IF fault = 1
           THEN /\ outcome' = Thrown(TransportError)
                /\ UNCHANGED <<hub, lastOk, published>>
           ELSE /\ outcome' = Returned(Location(id))
                /\ hub' = HubPush(hub, id, promptTemplate, options)
                /\ lastOk' = [lastOk EXCEPT ![id] = "createPrompt"]
                /\ published' = [published EXCEPT ![id] = promptTemplate]
        /\ UNCHANGED <<repos, env>>

\* currentPrompt?.field
OptionalField(record, field) ==
    IF record.t \in {"undefined", "null"} THEN Undef ELSE record[field]

\* the description merged with || in place of ??: a falsy update loses
MergeDescriptionTruthy(updates, currentPrompt) ==
    IF IsFalsy(updates.description)
    THEN OptionalField(currentPrompt, "description")
    ELSE updates.description

\* updates.description ?? currentPrompt?.description
MergeDescription(updates, currentPrompt) ==
    Coalesce(updates.description, OptionalField(currentPrompt, "description"))

\* the visibility republished as private unless the update sets it
MergeVisibilityPrivate(updates, currentPrompt) ==
    Coalesce(updates.isPublic, Bool(FALSE))

\* updates.isPublic ?? currentPrompt?.is_public ?? false
MergeVisibility(updates, currentPrompt) ==
    Coalesce(Coalesce(updates.isPublic, OptionalField(currentPrompt, "is_public")),
             Bool(FALSE))

\* the merge of updatePrompt: the definition to publish, or the error thrown
MergeUpdate(updates, currentPrompt, promptTemplate, serialized) ==
    LET existingTemplate == serialized.template
        template == Coalesce(updates.template, existingTemplate)
        templateFormat ==
            Coalesce(Coalesce(Coalesce(updates.templateFormat,
                                       serialized.template_format),
                              promptTemplate.templateFormat),
                     Str("mustache"))
        templateVariables ==
            Coalesce(Coalesce(Coalesce(updates.templateVariables,
                                       serialized.input_variables),
                              promptTemplate.inputVariables),
                     Arr(<<>>))
        description == MergeDescription(updates, currentPrompt)
        tags == Coalesce(updates.tags, OptionalField(currentPrompt, "tags"))
        readme == Coalesce(updates.readme, OptionalField(currentPrompt, "readme"))
        isPublic == MergeVisibility(updates, currentPrompt)
    IN  IF ~IsFalsy(existingTemplate) /\ TypeOf(existingTemplate) # "string"
        THEN [error |-> UnsupportedTemplateType]
        ELSE IF template = Undef
        THEN [error |-> UndeterminedTemplate]
        ELSE [error |-> "none",
              prompt |-> PromptTemplate(template, templateFormat, templateVariables),
              options |-> [description |-> description, tags |-> tags,
                           readme |-> readme, isPublic |-> isPublic]]

\* PromptManager.updatePrompt(promptId, updates); the record fetch and the
\* template pull are started together (Promise.all), so both are issued even
\* when one is rejected.  pull resolves to the object of the stored prompt,
\* which is never falsy: the `!promptTemplate` guard does not fire.
UpdatePrompt(apiKey, id, updates, fault, withFormat) ==
    LET currentPrompt == HubGetPrompt(hub, id)
        promptTemplate == HubPull(hub, id)
        serialized == Serialize(promptTemplate, withFormat)
        merged == MergeUpdate(updates, currentPrompt, promptTemplate, serialized)
        fetches ==
            <<Probe(hub, id, FALSE),
              GetPromptCall(id, IF fault = 2 THEN Rejected ELSE currentPrompt),
              PullCall(id, apiKey, IF fault = 3 THEN Rejected ELSE promptTemplate)>>
    IN  /\ op' = [name |-> "updatePrompt", id |-> id, updates |-> updates,
                  apiKey |-> apiKey, fault |-> fault]
        /\ IF fault = 1
           THEN /\ calls' = <<Probe(hub, id, TRUE)>>
                /\ outcome' = Thrown(TransportError)
                /\ UNCHANGED <<hub, lastOk, published>>
           ELSE IF ~HubExists(hub, id)
           THEN /\ calls' = <<Probe(hub, id, FALSE)>>
                /\ outcome' = Thrown(NotFound)
                /\ UNCHANGED <<hub, lastOk, published>>
           ELSE IF fault \in {2, 3}
           THEN /\ calls' = fetches
                /\ outcome' = Thrown(TransportError)
                /\ UNCHANGED <<hub, lastOk, published>>
           ELSE IF merged.error # "none"
           THEN /\ calls' = fetches
                /\ outcome' = Thrown(merged.error)
                /\ UNCHANGED <<hub, lastOk, published>>
           ELSE /\ calls' = Append(fetches,
                               PushCall(id, merged.prompt, merged.options, apiKey,
                                        IF fault = 4 THEN Rejected ELSE Location(id)))
                /\ IF fault = 4
                   THEN /\ outcome' = Thrown(TransportError)
                        /\ UNCHANGED <<hub, lastOk, published>>
                   ELSE /\ outcome' = Returned(Location(id))
                        /\ hub' = HubPush(hub, id, merged.prompt, merged.options)
                        /\ lastOk' = [lastOk EXCEPT ![id] = "updatePrompt"]
                        /\ published' = [published EXCEPT ![id] = merged.prompt]
        /\ UNCHANGED <<repos, env>>

\* deletePrompt deleting whatever the probe answered
DeletePromptUnchecked(apiKey, id, fault) ==
    /\ op' = [name |-> "deletePrompt", id |-> id, apiKey |-> apiKey, fault |-> fault]
    /\ calls' = <<Probe(hub, id, FALSE), DeleteCall(id, Undef)>>
    /\ outcome' = Returned(Undef)
    /\ hub' = HubDelete(hub, id)
    /\ lastOk' = [lastOk EXCEPT ![id] = "deletePrompt"]
    /\ published' = [published EXCEPT ![id] = NoPrompt]
    /\ UNCHANGED <<repos, env>>

\* PromptManager.deletePrompt(promptId)
DeletePrompt(apiKey, id, fault) ==
    /\ op' = [name |-> "deletePrompt", id |-> id, apiKey |-> apiKey, fault |-> fault]
    /\ IF fault = 1
       THEN /\ calls' = <<Probe(hub, id, TRUE)>>
            /\ outcome' = Thrown(TransportError)
            /\ UNCHANGED <<hub, lastOk, published>>
       ELSE IF ~HubExists(hub, id)
       THEN /\ calls' = <<Probe(hub, id, FALSE)>>
            /\ outcome' = Thrown(NotFound)
            /\ UNCHANGED <<hub, lastOk, published>>
       ELSE /\ calls' = <<Probe(hub, id, FALSE),
                          DeleteCall(id, IF fault = 2 THEN Rejected ELSE Undef)>>
            /\ IF fault = 2
               THEN /\ outcome' = Thrown(TransportError)
                    /\ UNCHANGED <<hub, lastOk, published>>
               ELSE /\ outcome' = Returned(Undef)
                    /\ hub' = HubDelete(hub, id)
                    /\ lastOk' = [lastOk EXCEPT ![id] = "deletePrompt"]
                    /\ published' = [published EXCEPT ![id] = NoPrompt]
    /\ UNCHANGED <<repos, env>>

----------------------------------------------------------------------------
(* The lifecycle specification: the four per-prompt operations, one after *)
(* another, from an empty hub                                             *)

HELLO == Tpl(<<Lit("Hello "), Var("name")>>)
BYE == Tpl(<<Lit("Bye")>>)

Definition(template, format, variables, description, tags, readme, isPublic) ==
    [template |-> template, templateFormat |-> format,
     templateVariables |-> variables, description |-> description,
     tags |-> tags, readme |-> readme, isPublic |-> isPublic]

NoUpdate ==
    Definition(Undef, Undef, Undef, Undef, Undef, Undef, Undef)

LifecycleDefinitions ==
    {Definition(HELLO, Undef, Arr(<<"name">>), Undef, Undef, Undef, Undef),
     Definition(HELLO, Str("f-string"), Arr(<<"name">>), Str("greets"),
                Arr(<<"latest">>), Undef, Bool(TRUE))}

LifecycleUpdates ==
    {NoUpdate,
     [NoUpdate EXCEPT !.template = BYE],
     [NoUpdate EXCEPT !.description = Str(""), !.isPublic = Bool(FALSE)]}

RenderVariables == {Undef, Map(<<>>), Map([name |-> "Ava"])}

ApiKey == Str("test")

Init ==
    /\ hub = [id \in Ids |-> Absent]
    /\ repos = <<>>
    /\ env = Str("env-key")
    /\ op = NoOp
    /\ calls = <<>>
    /\ outcome = NoOutcome
    /\ lastOk = [id \in Ids |-> "none"]
    /\ cli = NoCommand
    /\ exitCode = 0
    /\ stderr = <<>>
    /\ stdout = <<>>
    /\ mcp = NoTool
    /\ rpc = NoMessage
    /\ published = PublishedIn(hub)
    /\ seen = NoneSeen
    /\ running = NoneRunning

Get ==
    \E id \in Ids, variables \in RenderVariables, fault \in 0..2 :
        GetPrompt(ApiKey, id, variables, fault) /\ UNCHANGED transportVars

Create ==
    \E id \in Ids, definition \in LifecycleDefinitions, fault \in 0..1 :
        CreatePrompt(ApiKey, id, definition, fault) /\ UNCHANGED transportVars

Update ==
    \E id \in Ids, updates \in LifecycleUpdates, fault \in 0..4,
       withFormat \in BOOLEAN :
        UpdatePrompt(ApiKey, id, updates, fault, withFormat) /\ UNCHANGED transportVars

Delete ==
    \E id \in Ids, fault \in 0..2 :
        DeletePrompt(ApiKey, id, fault) /\ UNCHANGED transportVars

Next == Get \/ Create \/ Update \/ Delete

Spec == Init /\ [][Next]_vars

----------------------------------------------------------------------------
(* The merge specification: one updatePrompt on "org/p", over every update *)
(* and over the hub states an existing prompt can be in                    *)

\* what serialize().template can be: a plain string (also the empty one), a
\* structured object or array, or another non-string value; Undef when the
\* serialized form has no template
RemoteTemplates ==
    {HELLO, Tpl(<<>>), Obj, Arr(<<"system", "human">>), Null, Num(0), Num(7),
     Bool(FALSE), Bool(TRUE), Undef}

\* the pulled object's format and variables; both absent when the pulled
\* object carries neither
RemoteShapes ==
    {<<Str("mustache"), Arr(<<"name">>)>>, <<Str("f-string"), Arr(<<>>)>>,
     <<Undef, Undef>>}

\* the Prompt record's description, tags, readme and is_public
RemoteMetadata ==
    {<<Str("old description"), Arr(<<"latest">>), Str("old readme"), Bool(TRUE)>>,
     <<Undef, Arr(<<>>), Undef, Bool(FALSE)>>}

RemotePrompts ==
    { Stored(t, sh[1], sh[2], md[1], md[2], md[3], md[4]) :
        t \in RemoteTemplates, sh \in RemoteShapes, md \in RemoteMetadata }

\* every PromptUpdate: each field absent, provided falsy, or provided truthy
AllUpdates ==
    { Definition(t, f, v, d, tg, r, p) :
        t \in {Undef, Tpl(<<>>), BYE},
        f \in {Undef, Str("mustache"), Str("f-string")},
        v \in {Undef, Arr(<<>>), Arr(<<"who">>)},
        d \in {Undef, Str(""), Str("new description")},
        tg \in {Undef, Arr(<<>>), Arr(<<"beta">>)},
        r \in {Undef, Str(""), Str("new readme")},
        p \in {Undef, Bool(FALSE), Bool(TRUE)} }

InitMerge ==
    /\ \E remote \in RemotePrompts :
          hub = [id \in Ids |-> IF id = "org/p" THEN remote ELSE Absent]
    /\ repos = <<>>
    /\ env = Str("env-key")
    /\ op = NoOp
    /\ calls = <<>>
    /\ outcome = NoOutcome
    /\ lastOk = [id \in Ids |-> IF id = "org/p" THEN "createPrompt" ELSE "none"]
    /\ cli = NoCommand
    /\ exitCode = 0
    /\ stderr = <<>>
    /\ stdout = <<>>
    /\ mcp = NoTool
    /\ rpc = NoMessage
    /\ published = PublishedIn(hub)
    /\ seen = NoneSeen
    /\ running = NoneRunning

\* the single update of a behaviour; the hub may reject the publish
UpdateOnce ==
    /\ op = NoOp
    /\ \E updates \in AllUpdates, fault \in {0, 4}, withFormat \in BOOLEAN :
          UpdatePrompt(ApiKey, "org/p", updates, fault, withFormat)
    /\ UNCHANGED transportVars

NextMerge == UpdateOnce

SpecMerge == InitMerge /\ [][NextMerge]_vars

----------------------------------------------------------------------------
(* The command-line tool: option parsing helpers and the create command *)

EitherNotBoth == "EitherNotBoth"
TemplateRequired == "TemplateRequired"
InvalidJson == "InvalidJson"
ExpectedStringArray == "ExpectedStringArray"
ExpectedArrayOrObject == "ExpectedArrayOrObject"
InvalidTemplateFormat == "InvalidTemplateFormat"
MissingApiKey == "MissingApiKey"
FileNotFound == "ENOENT"

\* a parsed JSON array of arbitrary entries, and a parsed JSON object
JArr(entries) == [t |-> "array", entries |-> entries]
JObj(keys, fields) == [t |-> "object", keys |-> keys, fields |-> fields]

\* the raw option texts the commands are run with, and JSON.parse of each;
\* Undef stands for the SyntaxError
JsonTexts ==
    {"[\"name\",\"role\"]", "{\"name\":\"x\"}", "[{\"name\":\"a\"},{\"key\":\"b\"}]",
     "[1]", "42", "not json"}

JsonParse(raw) ==
    CASE raw = "[\"name\",\"role\"]" -> JArr(<<Str("name"), Str("role")>>)
      [] raw = "{\"name\":\"x\"}" -> JObj(<<"name">>, [name |-> Str("x")])
      [] raw = "[{\"name\":\"a\"},{\"key\":\"b\"}]" ->
            JArr(<<JObj(<<"name">>, [name |-> Str("a")]),
                   JObj(<<"key">>, [key |-> Str("b")])>>)
      [] raw = "[\"beta\"]" -> JArr(<<Str("beta")>>)
      [] raw = "[1]" -> JArr(<<Num(1)>>)
      [] raw = "42" -> Num(42)
      [] raw = "null" -> Null
      [] raw = "true" -> Bool(TRUE)
      [] raw = "\"name\"" -> Str("name")
      [] raw = "[]" -> JArr(<<>>)
      [] raw = "[null]" -> JArr(<<Null>>)
      [] raw = "[[\"a\"]]" -> JArr(<<JArr(<<Str("a")>>)>>)
      [] raw = "[{\"id\":\"x\"}]" -> JArr(<<JObj(<<"id">>, [id |-> Str("x")])>>)
      [] raw = "[{\"name\":1,\"key\":\"k\"}]" ->
            JArr(<<JObj(<<"name", "key">>, [name |-> Num(1), key |-> Str("k")])>>)
      [] raw = "{\"role\":1,\"name\":2}" ->
            JObj(<<"role", "name">>, [role |-> Num(1), name |-> Num(2)])
      [] raw = "{\"b\":1,\"1\":2,\"0\":3}" ->
            JObj(<<"b", "1", "0">>, ("b" :> Num(1)) @@ ("1" :> Num(2)) @@ ("0" :> Num(3)))
      [] OTHER -> Undef

Failed(e) == [error |-> e]
Ok(v) == [error |-> "none", value |-> v]

\* parseJsonOption(optionName, raw)
ParseJsonOption(raw) ==
    IF raw = Undef THEN Ok(Undef)
    ELSE IF JsonParse(raw.s) = Undef THEN Failed(InvalidJson)
    ELSE Ok(JsonParse(raw.s))

\* record.field of a parsed object, undefined when it has no such field
FieldOf(obj, field) ==
    IF field \in DOMAIN obj.fields THEN obj.fields[field] ELSE Undef

\* the callback accepting an entry by its name only
EntryNameOnly(entry) ==
    IF entry.t = "string" THEN entry
    ELSE IF entry.t = "object" /\ FieldOf(entry, "name").t = "string"
    THEN FieldOf(entry, "name")
    ELSE Undef

\* the callback of value.map in ensureStringArray: the entry's name, Undef
\* where the callback throws
EntryName(entry) ==
    IF entry.t = "string" THEN entry
    ELSE IF entry.t = "object" /\ FieldOf(entry, "name").t = "string"
    THEN FieldOf(entry, "name")
    ELSE IF entry.t = "object" /\ FieldOf(entry, "key").t = "string"
    THEN FieldOf(entry, "key")
    ELSE Undef

\* the property names that are array indices
IndexKeys == <<"0", "1", "2">>

\* Object.keys(value): the index-like keys in ascending numeric order, then
\* the other keys in the order JSON.parse created them
ObjectKeys(value) ==
    SelectSeq(IndexKeys, LAMBDA k : k \in DOMAIN value.fields)
    \o SelectSeq(value.keys, LAMBDA k : \A i \in 1..Len(IndexKeys) : k # IndexKeys[i])

\* ensureStringArray(value, optionName)
EnsureStringArray(value) ==
    IF value = Undef THEN Ok(Arr(<<>>))
    ELSE IF value.t = "array"
    THEN IF \E i \in 1..Len(value.entries) : EntryName(value.entries[i]) = Undef
         THEN Failed(ExpectedStringArray)
         ELSE Ok(Arr([i \in 1..Len(value.entries) |-> EntryName(value.entries[i]).s]))
    ELSE IF value.t = "object"
    THEN Ok(Arr(ObjectKeys(value)))
    ELSE Failed(ExpectedArrayOrObject)

\* readFile(path, "utf8")
ReadFile(path) ==
    CASE path = Str("welcome.mustache") -> Ok(HELLO)
      [] path = Str("README.md") -> Ok(Str("readme from file"))
      [] OTHER -> Failed(FileNotFound)

\* loadTextInput(inline, filePath, label)
LoadTextInput(inline, filePath) ==
    IF ~IsFalsy(inline) /\ ~IsFalsy(filePath) THEN Failed(EitherNotBoth)
    ELSE IF ~IsFalsy(filePath) THEN ReadFile(filePath)
    ELSE Ok(inline)

\* resolveTemplateFormat(format, context)
ResolveTemplateFormat(format) ==
    IF format = Undef THEN Ok(Undef)
    ELSE IF format \notin {Str("mustache"), Str("f-string")}
    THEN Failed(InvalidTemplateFormat)
    ELSE Ok(format)

\* resolveApiKey(command): --api-key, else LANGSMITH_API_KEY
ResolveApiKey(apiKeyOption, environment) ==
    LET apiKey == Coalesce(apiKeyOption, environment)
    IN  IF IsFalsy(apiKey) THEN Failed(MissingApiKey) ELSE Ok(apiKey)

\* an option's value after commander applied the option's declared default
WithDefault(given, default) == IF given = Undef THEN default ELSE given

\* the options object of the create command: --format defaults to
\* "mustache", --public to false
CreateOptions(raw) ==
    [raw EXCEPT !.format = WithDefault(raw.format, Str("mustache")),
                !.public = WithDefault(raw.public, Bool(FALSE))]

\* the body of the create action up to the manager call: the definition it
\* builds, or the first error thrown
CreateDefinition(options) ==
    LET template == LoadTextInput(options.template, options.templateFile)
        readme == LoadTextInput(options.readme, options.readmeFile)
        variablesJson == ParseJsonOption(options.variables)
        tagsJson == ParseJsonOption(options.tags)
        variables == EnsureStringArray(variablesJson.value)
        tags == IF tagsJson.value = Undef THEN Ok(Undef)
                ELSE EnsureStringArray(tagsJson.value)
        format == ResolveTemplateFormat(options.format)
    IN  IF template.error # "none" THEN template
        ELSE IF IsFalsy(template.value) THEN Failed(TemplateRequired)
        ELSE IF readme.error # "none" THEN readme
        ELSE IF variablesJson.error # "none" THEN variablesJson
        ELSE IF tagsJson.error # "none" THEN tagsJson
        ELSE IF variables.error # "none" THEN variables
        ELSE IF tags.error # "none" THEN tags
        ELSE IF format.error # "none" THEN format
        ELSE Ok(Definition(template.value, format.value, variables.value,
                           options.description, tags.value, readme.value,
                           options.public))

\* handleActionError(spinner, error): the message goes to stderr, the exit
\* code becomes 1
HandleActionErrorSilent(error) ==
    /\ stderr' = Append(stderr, error)
    /\ exitCode' = exitCode

HandleActionError(error) ==
    /\ stderr' = Append(stderr, error)
    /\ exitCode' = 1

\* the action of `prompto create <promptId>` run with the given flags
CliCreate(id, raw, apiKeyOption, fault) ==
    LET options == CreateOptions(raw)
        built == CreateDefinition(options)
        apiKey == ResolveApiKey(apiKeyOption, env)
        failure == IF built.error # "none" THEN built.error ELSE apiKey.error
    IN  /\ cli' = [command |-> "create", promptId |-> id, flags |-> raw,
                   apiKey |-> apiKeyOption]
        /\ IF failure # "none"
           THEN /\ HandleActionError(failure)
                /\ op' = NoOp
                /\ calls' = <<>>
                /\ outcome' = NoOutcome
                /\ UNCHANGED <<hub, repos, env, lastOk, published>>
           ELSE /\ CreatePrompt(apiKey.value, id, built.value, fault)
                /\ IF outcome'.kind = "throw"
                   THEN HandleActionError(outcome'.error)
                   ELSE UNCHANGED <<exitCode, stderr>>
        /\ UNCHANGED <<stdout, mcp, rpc>>

----------------------------------------------------------------------------
(* The command-line tool: the show, update, delete and list commands *)

InvalidVariable == "InvalidVariable"
PromptNotFound == "PromptNotFound"
NothingToUpdate == "NothingToUpdate"
VisibilityConflict == "VisibilityConflict"

\* the --var texts the show command is run with
PairTexts == {"name=Ava", "name=a=b", "name", "=Ava"}

\* pair.split("="): the key, the number of parts after it, and those parts
\* joined with "=" again
SplitPair(pair) ==
    CASE pair = "name=Ava" -> [key |-> "name", rest |-> 1, value |-> "Ava"]
      [] pair = "name=a=b" -> [key |-> "name", rest |-> 2, value |-> "a=b"]
      [] pair = "name" -> [key |-> "name", rest |-> 0, value |-> ""]
      [] pair = "=Ava" -> [key |-> "", rest |-> 1, value |-> "Ava"]

\* the loop of parseVariables: a later pair overwrites an earlier one
RECURSIVE AssignPairs(_, _)
AssignPairs(pairs, result) ==
    IF pairs = <<>> THEN result
    ELSE LET part == SplitPair(Head(pairs))
         IN  AssignPairs(Tail(pairs), (part.key :> part.value) @@ result)

\* parseVariables(raw)
ParseVariables(raw) ==
    IF raw = Undef \/ raw.xs = <<>> THEN Ok(Undef)
    ELSE IF \E i \in 1..Len(raw.xs) :
                SplitPair(raw.xs[i]).key = "" \/ SplitPair(raw.xs[i]).rest = 0
    THEN Failed(InvalidVariable)
    ELSE Ok(Map(AssignPairs(raw.xs, <<>>)))

\* JSON.stringify({ id: promptId, variables: vars ?? {}, prompt }, null, 2):
\* the members in the order the literal lists them
ShowJson(id, variables, prompt) ==
    JObj(<<"id", "variables", "prompt">>,
         [id |-> id, variables |-> Coalesce(variables, Map(<<>>)), prompt |-> prompt])

\* the lines the show command prints without --json
ShowLines(id, variables, prompt) ==
    IF variables # Undef /\ DOMAIN variables.m # {}
    THEN <<Str(id), variables, prompt>>
    ELSE <<Str(id), prompt>>

\* the action of `prompto show <promptId>` (run without --save)
CliShow(id, flags, apiKeyOption, fault) ==
    LET parsed == ParseVariables(flags.var)
        apiKey == ResolveApiKey(apiKeyOption, env)
        failure == IF parsed.error # "none" THEN parsed.error ELSE apiKey.error
    IN  /\ cli' = [command |-> "show", promptId |-> id, flags |-> flags,
                   apiKey |-> apiKeyOption]
        /\ IF failure # "none"
           THEN /\ HandleActionError(failure)
                /\ op' = NoOp
                /\ calls' = <<>>
                /\ outcome' = NoOutcome
                /\ UNCHANGED <<hub, repos, env, lastOk, published, stdout>>
           ELSE /\ GetPrompt(apiKey.value, id, parsed.value, fault)
                /\ IF outcome'.kind = "throw"
                   THEN HandleActionError(outcome'.error) /\ UNCHANGED stdout
                   ELSE IF IsFalsy(outcome'.value)
                   THEN HandleActionError(PromptNotFound) /\ UNCHANGED stdout
                   ELSE /\ UNCHANGED <<exitCode, stderr>>
                        /\ stdout' =
                             IF flags.json
                             THEN Append(stdout,
                                         ShowJson(Str(id), parsed.value, outcome'.value))
                             ELSE stdout \o ShowLines(id, parsed.value, outcome'.value)
        /\ UNCHANGED <<mcp, rpc>>

\* the flags resolved without the conflict check: --public wins
ResolveVisibilityPublicWins(options) ==
    IF ~IsFalsy(options.public) THEN Ok(Bool(TRUE))
    ELSE IF ~IsFalsy(options.private) THEN Ok(Bool(FALSE))
    ELSE Ok(Undef)

\* resolveVisibility(options)
ResolveVisibility(options) ==
    IF ~IsFalsy(options.public) /\ ~IsFalsy(options.private)
    THEN Failed(VisibilityConflict)
    ELSE IF ~IsFalsy(options.public) THEN Ok(Bool(TRUE))
    ELSE IF ~IsFalsy(options.private) THEN Ok(Bool(FALSE))
    ELSE Ok(Undef)

\* Object.keys(updates).length === 0
NoKeysUnchecked(updates) == FALSE

NoKeys(updates) ==
    \A field \in DOMAIN updates : updates[field] = Undef

\* the body of the update action up to the manager call: the update it
\* builds, or the first error thrown
UpdateDefinition(options) ==
    LET template == LoadTextInput(options.template, options.templateFile)
        readme == LoadTextInput(options.readme, options.readmeFile)
        variablesJson == ParseJsonOption(options.variables)
        tagsJson == ParseJsonOption(options.tags)
        variables == IF variablesJson.value = Undef THEN Ok(Undef)
                     ELSE EnsureStringArray(variablesJson.value)
        tags == IF tagsJson.value = Undef THEN Ok(Undef)
                ELSE EnsureStringArray(tagsJson.value)
        isPublic == ResolveVisibility(options)
        format == ResolveTemplateFormat(options.format)
        updates == Definition(template.value,
                              IF IsFalsy(format.value) THEN Undef ELSE format.value,
                              variables.value, options.description, tags.value,
                              readme.value, isPublic.value)
    IN  IF template.error # "none" THEN template
        ELSE IF readme.error # "none" THEN readme
        ELSE IF variablesJson.error # "none" THEN variablesJson
        ELSE IF tagsJson.error # "none" THEN tagsJson
        ELSE IF variables.error # "none" THEN variables
        ELSE IF tags.error # "none" THEN tags
        ELSE IF isPublic.error # "none" THEN isPublic
        ELSE IF format.error # "none" THEN format
        ELSE IF NoKeys(updates) THEN Failed(NothingToUpdate)
        ELSE Ok(updates)

\* the action of `prompto update <promptId>` run with the given flags
CliUpdate(id, flags, apiKeyOption, fault, withFormat) ==
    LET built == UpdateDefinition(flags)
        apiKey == ResolveApiKey(apiKeyOption, env)
        failure == IF built.error # "none" THEN built.error ELSE apiKey.error
    IN  /\ cli' = [command |-> "update", promptId |-> id, flags |-> flags,
                   apiKey |-> apiKeyOption]
        /\ IF failure # "none"
           THEN /\ HandleActionError(failure)
                /\ op' = NoOp
                /\ calls' = <<>>
                /\ outcome' = NoOutcome
                /\ UNCHANGED <<hub, repos, env, lastOk, published>>
           ELSE /\ UpdatePrompt(apiKey.value, id, built.value, fault, withFormat)
                /\ IF outcome'.kind = "throw"
                   THEN HandleActionError(outcome'.error)
                   ELSE UNCHANGED <<exitCode, stderr>>
        /\ UNCHANGED <<stdout, mcp, rpc>>

\* the action of `prompto delete <promptId>`
CliDelete(id, apiKeyOption, fault) ==
    LET apiKey == ResolveApiKey(apiKeyOption, env)
    IN  /\ cli' = [command |-> "delete", promptId |-> id, flags |-> <<>>,
                   apiKey |-> apiKeyOption]
        /\ IF apiKey.error # "none"
           THEN /\ HandleActionError(apiKey.error)
                /\ op' = NoOp
                /\ calls' = <<>>
                /\ outcome' = NoOutcome
                /\ UNCHANGED <<hub, repos, env, lastOk, published>>
           ELSE /\ DeletePrompt(apiKey.value, id, fault)
                /\ IF outcome'.kind = "throw"
                   THEN HandleActionError(outcome'.error)
                   ELSE UNCHANGED <<exitCode, stderr>>
        /\ UNCHANGED <<stdout, mcp, rpc>>

\* the action of `prompto list`; the table and the --json payload both
\* print the prompts in the order listPrompts returned them
CliList(flags, apiKeyOption, fault) ==
    LET apiKey == ResolveApiKey(apiKeyOption, env)
    IN  /\ cli' = [command |-> "list", promptId |-> "", flags |-> flags,
                   apiKey |-> apiKeyOption]
        /\ IF apiKey.error # "none"
           THEN /\ HandleActionError(apiKey.error)
                /\ op' = NoOp
                /\ calls' = <<>>
                /\ outcome' = NoOutcome
                /\ UNCHANGED <<hub, repos, env, lastOk, published, stdout>>
           ELSE /\ ListPrompts(flags.query, fault)
                /\ IF outcome'.kind = "throw"
                   THEN HandleActionError(outcome'.error) /\ UNCHANGED stdout
                   ELSE /\ UNCHANGED <<exitCode, stderr>>
                        /\ stdout' = Append(stdout, outcome'.value)
        /\ UNCHANGED <<mcp, rpc>>

----------------------------------------------------------------------------
(* The MCP tools (Streamable HTTP handler) *)

\* String.prototype.trim on the bearer tokens the model sends
Trim(v) ==
    CASE v = Str("  ") -> Str("")
      [] v = Str(" bearer-key ") -> Str("bearer-key")
      [] OTHER -> v

\* verifyToken(req, bearer) and extra.authInfo?.token: no auth info without
\* a bearer, else the bearer as the token
AuthToken(bearer) == IF IsFalsy(bearer) THEN Undef ELSE bearer

\* resolveApiKey(explicitApiKey, bearerToken):
\* explicitApiKey ?? (bearerToken && bearerToken.trim()) ?? LANGSMITH_API_KEY
McpResolveApiKey(explicitApiKey, bearerToken, environment) ==
    LET trimmed == IF IsFalsy(bearerToken) THEN bearerToken ELSE Trim(bearerToken)
        key == Coalesce(Coalesce(explicitApiKey, trimmed), environment)
    IN  IF IsFalsy(key) THEN Failed(MissingApiKey) ELSE Ok(key)

\* the text of a tool's success message around the location or the id
Message(kind, about) == [t |-> "string", message |-> kind, about |-> about]

\* a tool handler that ends in resolveApiKey, before it constructs a manager
McpRejected(tool, args, bearer, error) ==
    /\ mcp' = [tool |-> tool, args |-> args, bearer |-> bearer,
               manager |-> FALSE, result |-> Thrown(error)]
    /\ op' = NoOp
    /\ calls' = <<>>
    /\ outcome' = NoOutcome
    /\ UNCHANGED <<hub, repos, env, lastOk, published>>

\* what a handler that reached the manager gives: the manager's error
\* rethrown, or the content text built from its value
McpAnswered(tool, args, bearer, content) ==
    mcp' = [tool |-> tool, args |-> args, bearer |-> bearer, manager |-> TRUE,
            result |-> IF outcome'.kind = "throw" THEN outcome' ELSE content]

\* a tool handler that throws after new PromptManager(key) and before it
\* calls the manager
McpRefused(tool, args, bearer, error) ==
    /\ mcp' = [tool |-> tool, args |-> args, bearer |-> bearer,
               manager |-> TRUE, result |-> Thrown(error)]
    /\ op' = NoOp
    /\ calls' = <<>>
    /\ outcome' = NoOutcome
    /\ UNCHANGED <<hub, repos, env, lastOk, published>>

\* the prompts_list tool
McpList(args, bearer, fault) ==
    LET key == McpResolveApiKey(args.apiKey, AuthToken(bearer), env)
    IN  /\ IF key.error # "none"
           THEN McpRejected("prompts_list", args, bearer, key.error)
           ELSE /\ ListPrompts(args.query, fault)
                /\ McpAnswered("prompts_list", args, bearer,
                               Returned(outcome'.value))
        /\ UNCHANGED <<cli, exitCode, stderr, stdout, rpc>>

\* the prompt_show tool
McpShow(args, bearer, fault) ==
    LET key == McpResolveApiKey(args.apiKey, AuthToken(bearer), env)
    IN  /\ IF key.error # "none"
           THEN McpRejected("prompt_show", args, bearer, key.error)
           ELSE /\ GetPrompt(key.value, args.promptId,
                             Coalesce(args.variables, Map(<<>>)), fault)
                /\ McpAnswered("prompt_show", args, bearer,
                       IF IsFalsy(outcome'.value) THEN Thrown(PromptNotFound)
                       ELSE IF ~IsFalsy(args.asJson)
                       THEN Returned(ShowJson(Str(args.promptId), args.variables,
                                              outcome'.value))
                       ELSE Returned(outcome'.value))
        /\ UNCHANGED <<cli, exitCode, stderr, stdout, rpc>>

\* the prompt_create tool
McpCreate(args, bearer, fault) ==
    LET key == McpResolveApiKey(args.apiKey, AuthToken(bearer), env)
        def == Definition(args.template, args.format, args.variables,
                          args.description, args.tags, args.readme, args.isPublic)
    IN  /\ IF key.error # "none"
           THEN McpRejected("prompt_create", args, bearer, key.error)
           ELSE /\ CreatePrompt(key.value, args.promptId, def, fault)
                /\ McpAnswered("prompt_create", args, bearer,
                               Returned(Message("Created", outcome'.value)))
        /\ UNCHANGED <<cli, exitCode, stderr, stdout, rpc>>

\* the prompt_update tool
McpUpdate(args, bearer, fault, withFormat) ==
    LET key == McpResolveApiKey(args.apiKey, AuthToken(bearer), env)
        updates == Definition(args.template, args.format, args.variables,
                              args.description, args.tags, args.readme,
                              args.isPublic)
    IN  /\ IF key.error # "none"
           THEN McpRejected("prompt_update", args, bearer, key.error)
           ELSE IF NoKeys(updates)
           THEN McpRefused("prompt_update", args, bearer, NothingToUpdate)
           ELSE /\ UpdatePrompt(key.value, args.promptId, updates, fault, withFormat)
                /\ McpAnswered("prompt_update", args, bearer,
                               Returned(Message("Updated", outcome'.value)))
        /\ UNCHANGED <<cli, exitCode, stderr, stdout, rpc>>

\* the prompt_delete tool
McpDelete(args, bearer, fault) ==
    LET key == McpResolveApiKey(args.apiKey, AuthToken(bearer), env)
    IN  /\ IF key.error # "none"
           THEN McpRejected("prompt_delete", args, bearer, key.error)
           ELSE /\ DeletePrompt(key.value, args.promptId, fault)
                /\ McpAnswered("prompt_delete", args, bearer,
                               Returned(Message("Deleted", Str(args.promptId))))
        /\ UNCHANGED <<cli, exitCode, stderr, stdout, rpc>>

----------------------------------------------------------------------------
(* The JSON-RPC endpoint: MCPServer behind POST /mcp *)

\* a message body: the JSON text of a value, or a text JSON.parse rejects
JsonOf(value) == [json |-> TRUE, value |-> value]
NotJson == [json |-> FALSE]

\* JSON.parse(message)
ParseMessage(message) ==
    IF message.json THEN Ok(message.value) ELSE Failed(InvalidJson)

\* value.member read without ?. : a TypeError on null and undefined
ReadThrows(value) == value.t \in {"undefined", "null"}

\* value.member where the read does not throw: undefined on a primitive, an
\* array, or an object without that member
Member(value, member) ==
    IF value.t = "object" /\ "fields" \in DOMAIN value
    THEN FieldOf(value, member)
    ELSE Undef

\* JSON.stringify(value, null, 2) of a tool's result: undefined for undefined
JsonText(value) ==
    IF value = Undef THEN Undef ELSE [t |-> "string", json |-> value]

\* JSON.stringify of an object literal: members whose value is undefined
\* are left out
JsonStringify(members) ==
    [m \in {n \in DOMAIN members : members[n] # Undef} |-> members[m]]

ParseError == -32700
MethodNotFound == -32601
InternalError == -32603

\* the error responses; an Error given as data is stringified as {}
ErrorResponse(id, code, message) ==
    JsonStringify([jsonrpc |-> Str("2.0"), id |-> id,
                   error |-> [t |-> "object", code |-> Num(code),
                              message |-> Str(message), data |-> Obj]])

ResultResponse(id, result) ==
    JsonStringify([jsonrpc |-> Str("2.0"), id |-> id, result |-> result])

\* the names handleToolsList lists, in its order
ToolNames ==
    <<"list_prompts", "get_prompt", "create_prompt", "update_prompt",
      "delete_prompt">>

\* result: { tools }
ToolsListResult == [t |-> "object", tools |-> Arr(ToolNames)]

\* result: [{ type: "text", text: JSON.stringify(result, null, 2) }]
ToolCallResult(value) ==
    JArr(<<JsonStringify([type |-> Str("text"), text |-> JsonText(value)])>>)

UnknownTool == "UnknownTool"
TypeError == "TypeError"
MethodNotFoundMessage == "MethodNotFound"
ParseErrorMessage == "Parse error"

\* the fields of args the manager reads as a PromptDefinition or PromptUpdate
ArgsDefinition(args) ==
    Definition(Member(args, "template"), Member(args, "templateFormat"),
               Member(args, "templateVariables"), Member(args, "description"),
               Member(args, "tags"), Member(args, "readme"),
               Member(args, "isPublic"))

\* args.variables || {}
VariablesOrEmpty(args) ==
    IF IsFalsy(Member(args, "variables")) THEN Map(<<>>)
    ELSE Member(args, "variables")

\* handleToolCall(name, args) for a tool the switch knows and an args value
\* its member reads do not throw on; the manager holds the key the server
\* was constructed with
HandleToolCall(name, args, apiKey, fault, withFormat) ==
    CASE name = Str("list_prompts") ->
            ListPrompts(Member(args, "query"), fault)
      [] name = Str("get_prompt") ->
            GetPrompt(apiKey, Member(args, "promptId").s, VariablesOrEmpty(args),
                      fault)
      [] name = Str("create_prompt") ->
            CreatePrompt(apiKey, Member(args, "promptId").s, ArgsDefinition(args),
                         fault)
      [] name = Str("update_prompt") ->
            UpdatePrompt(apiKey, Member(args, "promptId").s, ArgsDefinition(args),
                         fault, withFormat)
      [] name = Str("delete_prompt") ->
            DeletePrompt(apiKey, Member(args, "promptId").s, fault)

\* a message answered without the manager being called
RpcUnserved(message, response) ==
    /\ rpc' = [message |-> message, response |-> response]
    /\ op' = NoOp
    /\ calls' = <<>>
    /\ outcome' = NoOutcome
    /\ UNCHANGED <<hub, repos, env, lastOk, published>>

\* the request handler of POST /mcp: new MCPServer(LANGSMITH_API_KEY) and
\* handleMessage(body), with handleRequest and handleToolCall inlined.  A
\* TypeError raised while the catch block of handleRequest reads request.id
\* leaves handleRequest and is caught by handleMessage as a parse error.
HandleMessage(message, fault, withFormat) ==
    LET parsed == ParseMessage(message)
        request == parsed.value
        id == Member(request, "id")
        method == Member(request, "method")
        params == Member(request, "params")
        name == Member(params, "name")
        args == Member(params, "arguments")
    IN  /\ IF parsed.error # "none"
           THEN RpcUnserved(message, ErrorResponse(Null, ParseError, ParseErrorMessage))
           ELSE IF ReadThrows(request)
           THEN RpcUnserved(message, ErrorResponse(Null, ParseError, ParseErrorMessage))
           ELSE IF method = Str("tools/list")
           THEN RpcUnserved(message, ResultResponse(id, ToolsListResult))
           ELSE IF method # Str("tools/call")
           THEN RpcUnserved(message,
                            ErrorResponse(id, MethodNotFound, MethodNotFoundMessage))
           ELSE IF ReadThrows(params)
           THEN RpcUnserved(message, ErrorResponse(id, InternalError, TypeError))
           ELSE IF \A i \in 1..Len(ToolNames) : name # Str(ToolNames[i])
           THEN RpcUnserved(message, ErrorResponse(id, InternalError, UnknownTool))
           ELSE IF ReadThrows(args)
           THEN RpcUnserved(message, ErrorResponse(id, InternalError, TypeError))
           ELSE /\ HandleToolCall(name, args, env, fault, withFormat)
                /\ rpc' = [message |-> message,
                           response |->
                              IF outcome'.kind = "throw"
                              THEN ErrorResponse(id, InternalError, outcome'.error)
                              ELSE ResultResponse(id, ToolCallResult(outcome'.value))]
        /\ UNCHANGED <<cli, exitCode, stderr, stdout, mcp>>

\* the serverless variant of the endpoint (api/mcp.js): what its
\* handleToolCall returns when its manager returned value
SuccessObject == [t |-> "object", fields |-> [success |-> Bool(TRUE)]]

ApiToolValue(name, value) ==
    IF name = Str("delete_prompt") THEN SuccessObject ELSE value

\* the response of the serverless variant to a tools/call its manager served
ApiResultResponse(id, name, value) ==
    ResultResponse(id, ToolCallResult(ApiToolValue(name, value)))

----------------------------------------------------------------------------
(* The create specification: one createPrompt, through the manager or the *)
(* create command, on an id that is absent or already stored              *)

\* every PromptDefinition: the template, and each optional field absent,
\* provided falsy, or provided truthy
AllDefinitions ==
    { Definition(t, f, v, d, tg, r, p) :
        t \in {Tpl(<<>>), HELLO},
        f \in {Undef, Str("mustache"), Str("f-string")},
        v \in {Undef, Arr(<<>>), Arr(<<"name">>)},
        d \in {Undef, Str(""), Str("greets")},
        tg \in {Undef, Arr(<<>>), Arr(<<"latest">>)},
        r \in {Undef, Str(""), Str("how to use")},
        p \in {Undef, Bool(FALSE), Bool(TRUE)} }

\* the flag combinations the create command is run with; Undef is a flag
\* that was not given
AllCreateFlags ==
    [template : {Undef, Tpl(<<>>), BYE},
     templateFile : {Undef, Str("welcome.mustache"), Str("missing.txt")},
     format : {Undef, Str("f-string"), Str("jinja2")},
     variables : {Undef} \cup {Str(raw) : raw \in JsonTexts},
     tags : {Undef, Str("[\"beta\"]"), Str("42")},
     description : {Undef, Str("greets")},
     readme : {Undef, Str("how to use")},
     readmeFile : {Undef, Str("README.md")},
     public : {Undef, Bool(TRUE)}]

ExistingPrompt ==
    Stored(BYE, Str("f-string"), Arr(<<"who">>), Str("old description"),
           Arr(<<"latest">>), Str("old readme"), Bool(TRUE))

InitCreate ==
    /\ hub \in [Ids -> {Absent, ExistingPrompt}]
    /\ repos = <<>>
    /\ env \in {Undef, Str("env-key")}
    /\ op = NoOp
    /\ calls = <<>>
    /\ outcome = NoOutcome
    /\ lastOk = [id \in Ids |-> IF hub[id].exists THEN "createPrompt" ELSE "none"]
    /\ cli = NoCommand
    /\ exitCode = 0
    /\ stderr = <<>>
    /\ stdout = <<>>
    /\ mcp = NoTool
    /\ rpc = NoMessage
    /\ published = PublishedIn(hub)
    /\ seen = NoneSeen
    /\ running = NoneRunning

CreateOnce ==
    /\ op = NoOp /\ cli = NoCommand
    /\ \E definition \in AllDefinitions, fault \in 0..1 :
          CreatePrompt(ApiKey, "org/p", definition, fault)
    /\ UNCHANGED transportVars

CliCreateOnce ==
    /\ op = NoOp /\ cli = NoCommand
    /\ \E raw \in AllCreateFlags, apiKeyOption \in {Undef, Str("cli-key")},
          fault \in 0..1 :
          CliCreate("org/p", raw, apiKeyOption, fault)
    /\ UNCHANGED <<seen, running>>

NextCreate == CreateOnce \/ CliCreateOnce

SpecCreate == InitCreate /\ [][NextCreate]_vars

----------------------------------------------------------------------------
(* The command-line specification: one run of the create or the update    *)
(* command, over the shapes its options can take                          *)

\* the --variables texts: the accepted shapes and the rejected ones
VariableTexts ==
    JsonTexts \cup
    {"null", "true", "\"name\"", "[]", "[null]", "[[\"a\"]]", "[{\"id\":\"x\"}]",
     "[{\"name\":1,\"key\":\"k\"}]", "{\"role\":1,\"name\":2}",
     "{\"b\":1,\"1\":2,\"0\":3}"}

TemplateOptions == {Undef, Tpl(<<>>), BYE}
TemplateFileOptions == {Undef, Str("welcome.mustache"), Str("missing.txt")}

CliCreateFlags ==
    [template : TemplateOptions,
     templateFile : TemplateFileOptions,
     format : {Undef},
     variables : {Undef} \cup {Str(raw) : raw \in VariableTexts},
     tags : {Undef},
     description : {Undef},
     readme : {Undef},
     readmeFile : {Undef},
     public : {Undef}]

\* commander sets --public and --private to true when given
CliUpdateFlags ==
    [template : TemplateOptions,
     templateFile : TemplateFileOptions,
     format : {Undef, Str("f-string"), Str("jinja2")},
     variables : {Undef} \cup {Str(raw) : raw \in VariableTexts},
     tags : {Undef},
     description : {Undef, Str("new description")},
     readme : {Undef},
     readmeFile : {Undef},
     public : {Undef, Bool(TRUE)},
     private : {Undef, Bool(TRUE)}]

InitCli ==
    /\ hub \in [Ids -> {Absent, ExistingPrompt}]
    /\ hub["org/q"] = Absent
    /\ repos = <<>>
    /\ env = Str("env-key")
    /\ op = NoOp
    /\ calls = <<>>
    /\ outcome = NoOutcome
    /\ lastOk = [id \in Ids |-> IF hub[id].exists THEN "createPrompt" ELSE "none"]
    /\ cli = NoCommand
    /\ exitCode = 0
    /\ stderr = <<>>
    /\ stdout = <<>>
    /\ mcp = NoTool
    /\ rpc = NoMessage
    /\ published = PublishedIn(hub)
    /\ seen = NoneSeen
    /\ running = NoneRunning

CliCreateRun ==
    /\ cli = NoCommand
    /\ \E raw \in CliCreateFlags, fault \in 0..1 :
          CliCreate("org/p", raw, Undef, fault)
    /\ UNCHANGED <<seen, running>>

CliUpdateRun ==
    /\ cli = NoCommand
    /\ \E flags \in CliUpdateFlags, fault \in {0, 4} :
          CliUpdate("org/p", flags, Undef, fault, TRUE)
    /\ UNCHANGED <<seen, running>>

NextCli == CliCreateRun \/ CliUpdateRun

SpecCli == InitCli /\ [][NextCli]_vars

----------------------------------------------------------------------------
(* The credential specification: one request at one of the three          *)
(* transports, over the values each credential level can hold             *)

\* a parsed JSON object whose member order does not matter
Object(fields) == [t |-> "object", fields |-> fields]

\* the JSON-RPC request { jsonrpc: "2.0", id, method, params }; a member
\* given as Undef is absent
RpcRequest(id, method, params) ==
    Object([jsonrpc |-> Str("2.0"), id |-> id, method |-> method,
            params |-> params])

\* params: { name, arguments }
ToolCall(name, arguments) == Object([name |-> name, arguments |-> arguments])

\* what --api-key, the apiKey parameter, the Authorization header and
\* LANGSMITH_API_KEY can hold
OptionKeys == {Undef, Str(""), Str("  "), Str("cli-key")}
ParameterKeys == {Undef, Str(""), Str("  "), Str("param-key")}
BearerTokens == {Undef, Str(""), Str("  "), Str(" bearer-key "), Str("bearer-key")}
EnvironmentKeys == {Undef, Str(""), Str("  "), Str("env-key")}

InitCredential ==
    /\ hub \in [Ids -> {Absent, ExistingPrompt}]
    /\ hub["org/q"] = Absent
    /\ env \in EnvironmentKeys
    /\ repos = <<>>
    /\ op = NoOp
    /\ calls = <<>>
    /\ outcome = NoOutcome
    /\ lastOk = [id \in Ids |-> IF hub[id].exists THEN "createPrompt" ELSE "none"]
    /\ cli = NoCommand
    /\ exitCode = 0
    /\ stderr = <<>>
    /\ stdout = <<>>
    /\ mcp = NoTool
    /\ rpc = NoMessage
    /\ published = PublishedIn(hub)
    /\ seen = NoneSeen
    /\ running = NoneRunning

NothingRun == cli = NoCommand /\ mcp = NoTool /\ rpc = NoMessage

CredentialCli ==
    /\ NothingRun
    /\ \E apiKeyOption \in OptionKeys, fault \in 0..1 :
          \/ CliShow("org/p", [var |-> Undef, json |-> TRUE], apiKeyOption, fault)
          \/ CliDelete("org/p", apiKeyOption, fault)
    /\ UNCHANGED <<seen, running>>

CredentialMcp ==
    /\ NothingRun
    /\ \E apiKey \in ParameterKeys, bearer \in BearerTokens, fault \in 0..1 :
          \/ McpShow([promptId |-> "org/p", variables |-> Undef, asJson |-> Undef,
                      apiKey |-> apiKey], bearer, fault)
          \/ McpDelete([promptId |-> "org/p", apiKey |-> apiKey], bearer, fault)
    /\ UNCHANGED <<seen, running>>

CredentialRpc ==
    /\ NothingRun
    /\ \E name \in {"get_prompt", "delete_prompt"}, fault \in 0..1 :
          HandleMessage(JsonOf(RpcRequest(Num(1), Str("tools/call"),
                                          ToolCall(Str(name),
                                                   Object([promptId |-> Str("org/p")])))),
                        fault, TRUE)
    /\ UNCHANGED <<seen, running>>

NextCredential == CredentialCli \/ CredentialMcp \/ CredentialRpc

SpecCredential == InitCredential /\ [][NextCredential]_vars

----------------------------------------------------------------------------
(* The JSON-RPC specification: a sequence of message bodies posted to the  *)
(* endpoint, each answered by a fresh MCPServer over the same hub          *)

\* the id member of a request: absent, null, a number or a string
RpcIds == {Undef, Null, Num(1), Str("a")}

\* bodies that are not JSON, and JSON values that are not a request object
Bodies ==
    {NotJson, JsonOf(Null), JsonOf(Num(42)), JsonOf(Str("tools/list")),
     JsonOf(Bool(TRUE)), JsonOf(JArr(<<>>))}

\* the method member where it is not tools/call
OtherMethods == {Undef, Str("tools/list"), Str("ping"), Num(7)}

\* the arguments objects sent to each tool
ToolArguments(name) ==
    CASE name = "list_prompts" ->
            {Object([query |-> Undef]), Object([query |-> Str("org")])}
      [] name = "get_prompt" ->
            {Object([promptId |-> Str("org/p"), variables |-> v]) :
                v \in {Undef, Map([name |-> "Ava"])}}
      [] name = "create_prompt" ->
            {Object([promptId |-> Str("org/p"), template |-> HELLO,
                     templateVariables |-> Arr(<<"name">>)])}
      [] name = "update_prompt" ->
            {Object([promptId |-> Str("org/p"), template |-> t]) :
                t \in {Undef, BYE}}
      [] name = "delete_prompt" ->
            {Object([promptId |-> Str("org/p")])}

\* the params member of a tools/call request
ToolCalls ==
    {Undef, Null, ToolCall(Undef, Undef), ToolCall(Str("no_such_tool"), Undef)}
    \cup UNION { {ToolCall(Str(ToolNames[i]), a) :
                     a \in {Undef, Null} \cup ToolArguments(ToolNames[i])} :
                 i \in 1..Len(ToolNames) }

InitRpc ==
    /\ hub \in [Ids -> {Absent, ExistingPrompt}]
    /\ hub["org/q"] = Absent
    /\ env = Str("env-key")
    /\ repos = <<>>
    /\ op = NoOp
    /\ calls = <<>>
    /\ outcome = NoOutcome
    /\ lastOk = [id \in Ids |-> IF hub[id].exists THEN "createPrompt" ELSE "none"]
    /\ cli = NoCommand
    /\ exitCode = 0
    /\ stderr = <<>>
    /\ stdout = <<>>
    /\ mcp = NoTool
    /\ rpc = NoMessage
    /\ published = PublishedIn(hub)
    /\ seen = NoneSeen
    /\ running = NoneRunning

\* a body that is not a request object
PostBody ==
    /\ \E body \in Bodies : HandleMessage(body, 0, TRUE)
    /\ UNCHANGED <<seen, running>>

\* a request whose method is not tools/call
PostRequest ==
    /\ \E id \in RpcIds, method \in OtherMethods :
          HandleMessage(JsonOf(RpcRequest(id, method, Undef)), 0, TRUE)
    /\ UNCHANGED <<seen, running>>

\* a tools/call request, with the hub answering or failing
PostToolCall ==
    /\ \E id \in RpcIds, params \in ToolCalls, fault \in 0..1 :
          HandleMessage(JsonOf(RpcRequest(id, Str("tools/call"), params)),
                        fault, TRUE)
    /\ UNCHANGED <<seen, running>>

NextRpc == PostBody \/ PostRequest \/ PostToolCall

SpecRpc == InitRpc /\ [][NextRpc]_vars

----------------------------------------------------------------------------
(* The surface specification: the five operations asked of the three       *)
(* transports in turn over one hub.  The command-line tool is a process    *)
(* that runs once; the two servers answer request after request.           *)

\* an operation and its arguments, whichever transport carries them; Undef
\* is an argument that is not supplied
Request(operation, variables, template, description) ==
    [operation |-> operation, promptId |-> "org/p", variables |-> variables,
     template |-> template, description |-> description]

Requests ==
    {Request("list", Undef, Undef, Undef),
     Request("show", Undef, Undef, Undef),
     Request("show", Map([name |-> "Ava"]), Undef, Undef),
     Request("create", Undef, HELLO, Undef),
     Request("update", Undef, Undef, Undef),
     Request("update", Undef, Undef, Str("new description")),
     Request("delete", Undef, Undef, Undef)}

\* the request as repeated --var options
VarOptions(variables) ==
    IF variables = Undef THEN Undef ELSE Arr(<<"name=Ava">>)

\* the request as options of the create and the update command
CommandFlags(r) ==
    [template |-> r.template, templateFile |-> Undef, format |-> Undef,
     variables |-> Undef, tags |-> Undef, description |-> r.description,
     readme |-> Undef, readmeFile |-> Undef, public |-> Undef,
     private |-> Undef]

\* the request as a command line
RunCommand(r) ==
    CASE r.operation = "list" -> CliList([query |-> Undef], Undef, 0)
      [] r.operation = "show" ->
            CliShow(r.promptId, [var |-> VarOptions(r.variables), json |-> TRUE],
                    Undef, 0)
      [] r.operation = "create" -> CliCreate(r.promptId, CommandFlags(r), Undef, 0)
      [] r.operation = "update" ->
            CliUpdate(r.promptId, CommandFlags(r), Undef, 0, TRUE)
      [] r.operation = "delete" -> CliDelete(r.promptId, Undef, 0)

\* the request as the parameters of an MCP tool
ToolParameters(r) ==
    [promptId |-> r.promptId, query |-> Undef, variables |-> Undef,
     asJson |-> Bool(TRUE), template |-> r.template, format |-> Undef,
     description |-> r.description, tags |-> Undef, readme |-> Undef,
     isPublic |-> Undef, apiKey |-> Undef]

\* the request as a call of an MCP tool
CallTool(r) ==
    CASE r.operation = "list" -> McpList(ToolParameters(r), Undef, 0)
      [] r.operation = "show" ->
            McpShow([ToolParameters(r) EXCEPT !.variables = r.variables], Undef, 0)
      [] r.operation = "create" -> McpCreate(ToolParameters(r), Undef, 0)
      [] r.operation = "update" -> McpUpdate(ToolParameters(r), Undef, 0, TRUE)
      [] r.operation = "delete" -> McpDelete(ToolParameters(r), Undef, 0)

\* the request as the name and the arguments of a JSON-RPC tool
RpcToolName(r) ==
    CASE r.operation = "list" -> "list_prompts"
      [] r.operation = "show" -> "get_prompt"
      [] r.operation = "create" -> "create_prompt"
      [] r.operation = "update" -> "update_prompt"
      [] r.operation = "delete" -> "delete_prompt"

RpcArguments(r) ==
    Object([promptId |-> Str(r.promptId), variables |-> r.variables,
            template |-> r.template, description |-> r.description])

\* the request as a body posted to the endpoint
PostCall(r) ==
    HandleMessage(JsonOf(RpcRequest(Num(1), Str("tools/call"),
                                    ToolCall(Str(RpcToolName(r)), RpcArguments(r)))),
                  0, TRUE)

\* what a transport did with a request: the hub it met, the manager call it
\* made, the hub calls that followed and whether it reported success
Observed(r, ok) ==
    [request |-> r, saw |-> hub, op |-> op', calls |-> calls',
     outcome |-> outcome', ok |-> ok]

InitSurface ==
    /\ hub = [id \in Ids |-> Absent]
    /\ env = Str("env-key")
    /\ repos = <<>>
    /\ op = NoOp
    /\ calls = <<>>
    /\ outcome = NoOutcome
    /\ lastOk = [id \in Ids |-> "none"]
    /\ cli = NoCommand
    /\ exitCode = 0
    /\ stderr = <<>>
    /\ stdout = <<>>
    /\ mcp = NoTool
    /\ rpc = NoMessage
    /\ published = PublishedIn(hub)
    /\ seen = NoneSeen
    /\ running = NoneRunning

SurfaceCli ==
    /\ cli = NoCommand
    /\ \E r \in Requests :
          /\ RunCommand(r)
          /\ seen' = [seen EXCEPT !.cli = Observed(r, exitCode' = 0)]
          /\ UNCHANGED running

SurfaceMcp ==
    \E r \in Requests :
       /\ CallTool(r)
       /\ seen' = [seen EXCEPT !.mcp = Observed(r, mcp'.result.kind = "return")]
       /\ UNCHANGED running

SurfaceRpc ==
    \E r \in Requests :
       /\ PostCall(r)
       /\ seen' = [seen EXCEPT !.rpc = Observed(r, "result" \in DOMAIN rpc'.response)]
       /\ UNCHANGED running

NextSurface == SurfaceCli \/ SurfaceMcp \/ SurfaceRpc

SpecSurface == InitSurface /\ [][NextSurface]_vars

----------------------------------------------------------------------------
(* The run specification: one run of a command, or one call of the show or *)
(* the update tool, over a hub whose prompt is absent, renders to a text   *)
(* or renders to the empty string, with and without a credential           *)

\* a prompt whose template is empty, and one that is a single variable
BlankPrompt ==
    Stored(Tpl(<<>>), Str("mustache"), Arr(<<>>), Undef, Undef, Undef, Bool(FALSE))
NamePrompt ==
    Stored(Tpl(<<Var("name")>>), Str("mustache"), Arr(<<"name">>), Undef, Undef,
           Undef, Bool(FALSE))

\* the options of one update run: at most one field, or none
RunUpdateFlags ==
    {[CommandFlags(Request("update", Undef, t, d)) EXCEPT !.public = p] :
        t \in {Undef, BYE}, d \in {Undef, Str("new description")},
        p \in {Undef, Bool(TRUE)}}

\* the parameters of one prompt_update call
ToolUpdateParameters ==
    {[ToolParameters(Request("update", Undef, t, d)) EXCEPT !.isPublic = p] :
        t \in {Undef, BYE}, d \in {Undef, Str("new description")},
        p \in {Undef, Bool(FALSE)}}

InitRun ==
    /\ hub \in [Ids -> {Absent, ExistingPrompt, BlankPrompt, NamePrompt}]
    /\ hub["org/q"] = Absent
    /\ env \in {Undef, Str("env-key")}
    /\ repos = <<>>
    /\ op = NoOp
    /\ calls = <<>>
    /\ outcome = NoOutcome
    /\ lastOk = [id \in Ids |-> IF hub[id].exists THEN "createPrompt" ELSE "none"]
    /\ cli = NoCommand
    /\ exitCode = 0
    /\ stderr = <<>>
    /\ stdout = <<>>
    /\ mcp = NoTool
    /\ rpc = NoMessage
    /\ published = PublishedIn(hub)
    /\ seen = NoneSeen
    /\ running = NoneRunning

RunList ==
    /\ NothingRun
    /\ \E query \in {Undef, Str("org")}, fault \in 0..1 :
          CliList([query |-> query], Undef, fault)
    /\ UNCHANGED <<seen, running>>

RunShow ==
    /\ NothingRun
    /\ \E var \in {Undef, Arr(<<"name=Ava">>), Arr(<<"name">>)}, json \in BOOLEAN,
          fault \in 0..2 :
          CliShow("org/p", [var |-> var, json |-> json], Undef, fault)
    /\ UNCHANGED <<seen, running>>

RunCreate ==
    /\ NothingRun
    /\ \E template \in {Undef, HELLO}, fault \in 0..1 :
          CliCreate("org/p", CommandFlags(Request("create", Undef, template, Undef)),
                    Undef, fault)
    /\ UNCHANGED <<seen, running>>

RunUpdate ==
    /\ NothingRun
    /\ \E flags \in RunUpdateFlags, fault \in 0..4 :
          CliUpdate("org/p", flags, Undef, fault, TRUE)
    /\ UNCHANGED <<seen, running>>

RunDelete ==
    /\ NothingRun
    /\ \E fault \in 0..2 : CliDelete("org/p", Undef, fault)
    /\ UNCHANGED <<seen, running>>

CallShow ==
    /\ NothingRun
    /\ \E variables \in {Undef, Map([name |-> "Ava"])},
          asJson \in {Undef, Bool(TRUE)}, fault \in 0..2 :
          McpShow([ToolParameters(Request("show", variables, Undef, Undef))
                      EXCEPT !.variables = variables, !.asJson = asJson],
                  Undef, fault)
    /\ UNCHANGED <<seen, running>>

CallUpdate ==
    /\ NothingRun
    /\ \E args \in ToolUpdateParameters, fault \in 0..4 :
          McpUpdate(args, Undef, fault, TRUE)
    /\ UNCHANGED <<seen, running>>

NextRun ==
    RunList \/ RunShow \/ RunCreate \/ RunUpdate \/ RunDelete \/ CallShow
    \/ CallUpdate

SpecRun == InitRun /\ [][NextRun]_vars

----------------------------------------------------------------------------
(* The fault specification: the operations of the manager, each hub call   *)
(* of which may fail, together with deletePrompt as src/manager.ts has it  *)

\* deletePrompt of src/manager.ts: the delete call without a probe, inside
\* try/catch; the hub rejects the delete of an id it does not hold
LegacyDeletePrompt(apiKey, id, fault) ==
    LET rejected == fault = 1 \/ ~HubExists(hub, id)
    IN  /\ op' = [name |-> "deletePrompt", id |-> id, apiKey |-> apiKey,
                  fault |-> fault, variant |-> "manager.ts"]
        /\ calls' = <<DeleteCall(id, IF rejected THEN Rejected ELSE Undef)>>
        /\ outcome' = Returned(Bool(~rejected))
        /\ IF rejected
           THEN UNCHANGED <<hub, lastOk, published>>
           ELSE /\ hub' = HubDelete(hub, id)
                /\ lastOk' = [lastOk EXCEPT ![id] = "deletePrompt"]
                /\ published' = [published EXCEPT ![id] = NoPrompt]
        /\ UNCHANGED <<repos, env>>

List ==
    \E query \in {Undef, Str("org")}, fault \in 0..1 :
        ListPrompts(query, fault) /\ UNCHANGED transportVars

LegacyDelete ==
    \E id \in Ids, fault \in 0..1 :
        LegacyDeletePrompt(ApiKey, id, fault) /\ UNCHANGED transportVars

NextFault == Get \/ Create \/ Update \/ Delete \/ List \/ LegacyDelete

SpecFault == Init /\ [][NextFault]_vars

----------------------------------------------------------------------------
(* The race specification: two invocations of getPrompt, updatePrompt or   *)
(* deletePrompt run concurrently.  An invocation suspends at each await;   *)
(* a step is the hub serving the call one invocation is waiting for.       *)

Invokers == {"first", "second"}

Idle == [name |-> "none", pc |-> "idle"]
Unfetched == [t |-> "pending"]

\* the invocation of an operation up to its first await: the probe is sent
Invocation(name, id, variables, updates) ==
    [name |-> name, id |-> id, variables |-> variables, updates |-> updates,
     pc |-> "probe", record |-> Unfetched, template |-> Unfetched,
     calls |-> <<>>, present |-> <<>>, outcome |-> NoOutcome]

Invocations ==
    {Invocation("getPrompt", id, Map([name |-> "Ava"]), NoUpdate) : id \in Ids}
    \cup {Invocation("updatePrompt", id, Undef, updates) :
             id \in Ids,
             updates \in {[NoUpdate EXCEPT !.template = HELLO],
                          [NoUpdate EXCEPT !.description = Str("new description")]}}
    \cup {Invocation("deletePrompt", id, Undef, NoUpdate) : id \in Ids}

\* the invocation after the hub served a call: the call is logged, with
\* whether the hub held the id at that moment
Served(inv, call) ==
    [inv EXCEPT !.calls = Append(@, call),
                !.present = Append(@, HubExists(hub, inv.id))]

Ended(inv, result) == [inv EXCEPT !.pc = "done", !.outcome = result]

\* a rejected pull answered with null, as an absent probe is
PullRejectedAsNull == Returned(Null)

\* getPrompt awaits its pull outside any try/catch: the rejection is raised
PullRejected == Thrown(TransportError)

\* an update merged with the record as the hub holds it at publish
MergedLate(inv) ==
    MergeUpdate(inv.updates, HubGetPrompt(hub, inv.id), inv.template,
                Serialize(inv.template, TRUE))

\* the merge of updatePrompt works on what the invocation fetched
Merged(inv) ==
    MergeUpdate(inv.updates, inv.record, inv.template,
                Serialize(inv.template, TRUE))

InitRace ==
    /\ hub \in [Ids -> {Absent, ExistingPrompt}]
    /\ repos = <<>>
    /\ env = Str("env-key")
    /\ op = NoOp
    /\ calls = <<>>
    /\ outcome = NoOutcome
    /\ lastOk = [id \in Ids |-> IF hub[id].exists THEN "createPrompt" ELSE "none"]
    /\ cli = NoCommand
    /\ exitCode = 0
    /\ stderr = <<>>
    /\ stdout = <<>>
    /\ mcp = NoTool
    /\ rpc = NoMessage
    /\ published = PublishedIn(hub)
    /\ seen = NoneSeen
    /\ running = [p \in Invokers |-> Idle]

raceFrame == <<repos, env, op, calls, outcome, cli, exitCode, stderr, stdout, mcp,
               rpc, seen>>

\* a caller invokes an operation
Start(p) ==
    /\ running[p] = Idle
    /\ \E inv \in Invocations : running' = [running EXCEPT ![p] = inv]
    /\ UNCHANGED <<hub, lastOk, published>>
    /\ UNCHANGED raceFrame

\* a probe whose answer is not looked at
ServeProbeUnchecked(p) ==
    LET inv == running[p]
    IN  /\ inv.pc = "probe"
        /\ running' = [running EXCEPT ![p] =
              [Served(inv, Probe(hub, inv.id, FALSE)) EXCEPT !.pc =
                  CASE inv.name = "getPrompt" -> "pull"
                    [] inv.name = "updatePrompt" -> "fetch"
                    [] inv.name = "deletePrompt" -> "delete"]]
        /\ UNCHANGED <<hub, lastOk, published>>
        /\ UNCHANGED raceFrame

\* await this.client.promptExists(promptId), and what each operation does
\* with the answer
ServeProbe(p) ==
    LET inv == running[p]
        exists == HubExists(hub, inv.id)
        probed == Served(inv, Probe(hub, inv.id, FALSE))
    IN  /\ inv.pc = "probe"
        /\ running' = [running EXCEPT ![p] =
              IF exists
              THEN [probed EXCEPT !.pc =
                       CASE inv.name = "getPrompt" -> "pull"
                         [] inv.name = "updatePrompt" -> "fetch"
                         [] inv.name = "deletePrompt" -> "delete"]
              ELSE Ended(probed, IF inv.name = "getPrompt" THEN AbsentPrompt
                                 ELSE Thrown(NotFound))]
        /\ UNCHANGED <<hub, lastOk, published>>
        /\ UNCHANGED raceFrame

\* await pull(promptId) of getPrompt, then invoke: the hub rejects the pull
\* of an id it no longer holds
ServePull(p) ==
    LET inv == running[p]
        pt == HubPull(hub, inv.id)
        rendered == Invoke(pt, PromptVariables(inv.variables))
    IN  /\ inv.pc = "pull"
        /\ running' = [running EXCEPT ![p] =
              IF ~HubExists(hub, inv.id)
              THEN Ended(Served(inv, PullCall(inv.id, ApiKey, Rejected)),
                         PullRejected)
              ELSE Ended(Served(inv, PullCall(inv.id, ApiKey, pt)), rendered)]
        /\ UNCHANGED <<hub, lastOk, published>>
        /\ UNCHANGED raceFrame

\* the two calls of Promise.all in updatePrompt are served in either order.
\* this.client.getPrompt(promptId) gives null for an id the hub does not hold
ServeRecord(p) ==
    LET inv == running[p]
        currentPrompt == HubGetPrompt(hub, inv.id)
        fetched == [Served(inv, GetPromptCall(inv.id, currentPrompt))
                       EXCEPT !.record = currentPrompt]
    IN  /\ inv.pc = "fetch"
        /\ inv.record = Unfetched
        /\ running' = [running EXCEPT ![p] =
              IF inv.template = Unfetched THEN fetched
              ELSE [fetched EXCEPT !.pc = "push"]]
        /\ UNCHANGED <<hub, lastOk, published>>
        /\ UNCHANGED raceFrame

\* pull(promptId) of updatePrompt: rejected for an id the hub no longer holds
ServeTemplate(p) ==
    LET inv == running[p]
        promptTemplate == HubPull(hub, inv.id)
        fetched == [Served(inv, PullCall(inv.id, ApiKey, promptTemplate))
                       EXCEPT !.template = promptTemplate]
    IN  /\ inv.pc = "fetch"
        /\ inv.template = Unfetched
        /\ running' = [running EXCEPT ![p] =
              IF ~HubExists(hub, inv.id)
              THEN Ended(Served(inv, PullCall(inv.id, ApiKey, Rejected)),
                         Thrown(TransportError))
              ELSE IF inv.record = Unfetched THEN fetched
              ELSE [fetched EXCEPT !.pc = "push"]]
        /\ UNCHANGED <<hub, lastOk, published>>
        /\ UNCHANGED raceFrame

\* the merge of updatePrompt and await push(promptId, prompt, options)
ServePush(p) ==
    LET inv == running[p]
        merged == Merged(inv)
    IN  /\ inv.pc = "push"
        /\ IF merged.error # "none"
           THEN /\ running' = [running EXCEPT ![p] = Ended(inv, Thrown(merged.error))]
                /\ UNCHANGED <<hub, lastOk, published>>
           ELSE /\ running' = [running EXCEPT ![p] =
                      Ended(Served(inv, PushCall(inv.id, merged.prompt, merged.options,
                                                 ApiKey, Location(inv.id))),
                            Returned(Location(inv.id)))]
                /\ hub' = HubPush(hub, inv.id, merged.prompt, merged.options)
                /\ lastOk' = [lastOk EXCEPT ![inv.id] = "updatePrompt"]
                /\ published' = [published EXCEPT ![inv.id] = merged.prompt]
        /\ UNCHANGED raceFrame

\* await this.client.deletePrompt(promptId): rejected for an id the hub no
\* longer holds
ServeDelete(p) ==
    LET inv == running[p]
    IN  /\ inv.pc = "delete"
        /\ IF ~HubExists(hub, inv.id)
           THEN /\ running' = [running EXCEPT ![p] =
                      Ended(Served(inv, DeleteCall(inv.id, Rejected)),
                            Thrown(TransportError))]
                /\ UNCHANGED <<hub, lastOk, published>>
           ELSE /\ running' = [running EXCEPT ![p] =
                      Ended(Served(inv, DeleteCall(inv.id, Undef)), Returned(Undef))]
                /\ hub' = HubDelete(hub, inv.id)
                /\ lastOk' = [lastOk EXCEPT ![inv.id] = "deletePrompt"]
                /\ published' = [published EXCEPT ![inv.id] = NoPrompt]
        /\ UNCHANGED raceFrame

NextRace ==
    \E p \in Invokers :
       \/ Start(p)
       \/ ServeProbe(p)
       \/ ServePull(p)
       \/ ServeRecord(p)
       \/ ServeTemplate(p)
       \/ ServePush(p)
       \/ ServeDelete(p)

SpecRace == InitRace /\ [][NextRace]_vars

----------------------------------------------------------------------------
(* Claims about listPrompts *)

\* the sequence the hub yielded to the listing call of the last operation
Yielded == HubListPrompts(repos, calls[1])

ListReturned == op.name = "listPrompts" /\ outcome.kind = "return"

\* the position of record r in sequence s (records carry distinct ids)
PosIn(s, r) == CHOOSE i \in 1..Len(s) : s[i].id = r.id

\* C1: listPrompts returns the stable descending sort of the hub's records by
\* updated_at: a permutation of what the hub yielded, each record at least as
\* recent as the next, and records of the same instant in the hub's order.
C1_ListSortedStable ==
    ListReturned =>
        LET res == outcome.value
        IN  /\ Len(res) = Len(Yielded)
            /\ \A i \in 1..Len(Yielded) : \E j \in 1..Len(res) : res[j] = Yielded[i]
            /\ \A i \in 1..Len(res) : \A j \in 1..Len(res) :
                    i < j =>
                        /\ GetTime(res[i].updated_at) >= GetTime(res[j].updated_at)
                        /\ GetTime(res[i].updated_at) = GetTime(res[j].updated_at)
                               => PosIn(Yielded, res[i]) < PosIn(Yielded, res[j])

\* a listing of three records that had to be reordered and holds a tie between
\* two different spellings of the same instant
C1_Witness ==
    /\ ListReturned
    /\ Len(outcome.value) = 3
    /\ outcome.value # Yielded
    /\ \E i \in 1..2 :
          /\ outcome.value[i].updated_at # outcome.value[i + 1].updated_at
          /\ GetTime(outcome.value[i].updated_at) = GetTime(outcome.value[i + 1].updated_at)

\* C2: every listPrompts call issues exactly one hub listing request, carrying
\* isPublic=false, isArchived=false and the caller's query unchanged, so no
\* public or archived prompt is ever listed.
C2_ListPrivateOnly ==
    op.name = "listPrompts" =>
        /\ Len(calls) = 1
        /\ calls[1].fn = "listPrompts"
        /\ calls[1].isPublic = Bool(FALSE)
        /\ calls[1].isArchived = Bool(FALSE)
        /\ calls[1].query = op.query
        /\ outcome.kind = "return" =>
              \A i \in 1..Len(outcome.value) :
                  ~outcome.value[i].is_public /\ ~outcome.value[i].is_archived

\* a query-filtered listing over a hub that also holds a public and an archived
\* prompt matching the query
C2_Witness ==
    /\ ListReturned
    /\ op.query = Str("first")
    /\ Len(outcome.value) = 1
    /\ \E i \in 1..Len(repos) :
          repos[i].is_public /\ HandleContains(repos[i].full_name, "first")
    /\ \E i \in 1..Len(repos) : repos[i].is_archived

----------------------------------------------------------------------------
(* Claims about the lifecycle operations *)

\* the map getPrompt renders with: the empty map when variables are omitted
RenderValues(variables) == IF variables = Undef THEN Map(<<>>) ELSE variables

\* C3: getPrompt on an absent id returns null, raising nothing and issuing no
\* pull; on a present id it pulls once and returns the stored template
\* rendered with the given variables (the empty map when omitted).
C3_GetPromptProbeThenFetch ==
    op.name = "getPrompt" =>
        /\ calls[1].fn = "promptExists" /\ calls[1].id = op.id
        /\ calls[1].answer = Bool(FALSE) =>
              Len(calls) = 1 /\ outcome = Returned(Null)
        /\ calls[1].answer = Bool(TRUE) =>
              /\ Len(calls) = 2
              /\ calls[2].fn = "pull" /\ calls[2].id = op.id
              /\ calls[2].answer # Rejected =>
                    LET rendered == Invoke(calls[2].answer, RenderValues(op.variables))
                    IN  IF rendered.kind = "return"
                        THEN outcome = Returned(rendered.value)
                        ELSE outcome.kind = "throw"

\* "Hello {{name}}" stored, fetched and rendered with { name: "Ava" }
C3_Witness ==
    /\ op.name = "getPrompt"
    /\ hub[op.id].exists
    /\ op.variables = Map([name |-> "Ava"])
    /\ Len(calls) = 2
    /\ outcome = Returned(Text(<<"Hello ", "Ava">>))

\* C4: updatePrompt and deletePrompt on an absent id fail with NotFound after
\* the existence probe alone: no fetch, pull, publish or delete is issued and
\* the hub is unchanged.
C4_AbsentTargetRejected ==
    [][ (/\ op'.name \in {"updatePrompt", "deletePrompt"}
         /\ calls'[1].answer = Bool(FALSE))
        => /\ outcome' = Thrown(NotFound)
           /\ calls' = <<ExistsCall(op'.id, Bool(FALSE))>>
           /\ hub' = hub ]_vars

\* an update rejected on an absent id while the hub holds another prompt
C4_Witness ==
    /\ op.name = "updatePrompt"
    /\ outcome = Thrown(NotFound)
    /\ ~hub[op.id].exists
    /\ \E id \in Ids : hub[id].exists

\* C11: a getPrompt the hub answers, on an id the manager last created or
\* updated with success, returns the rendering of exactly the template that
\* create or update published, with the given variables substituted; the
\* result is a string, never null.
C11_RoundTrip ==
    (/\ op.name = "getPrompt"
     /\ op.fault = 0
     /\ published[op.id] # NoPrompt)
    => LET rendered == Invoke(published[op.id], RenderValues(op.variables))
       IN  IF rendered.kind = "return"
           THEN /\ outcome = Returned(Text(RenderTokens(published[op.id].template.tpl,
                                                        RenderValues(op.variables).m)))
                /\ outcome.value.t = "string"
           ELSE outcome.kind = "throw"

\* "Hello {{name}}" with variables ["name"] created on org/p, then rendered
\* with { name: "Ava" } to "Hello Ava"
C11_Witness ==
    /\ op.name = "getPrompt"
    /\ op.id = "org/p"
    /\ op.variables = Map([name |-> "Ava"])
    /\ lastOk["org/p"] = "createPrompt"
    /\ published["org/p"] = PromptTemplate(HELLO, Str("mustache"), Arr(<<"name">>))
    /\ outcome = Returned(Text(<<"Hello ", "Ava">>))

Present(id) == hub[id].exists

\* C10: per promptId, from absent, presence follows absent -create-> present
\* -update-> present -delete-> absent: update and delete on an absent id are
\* rejected and leave it absent, create on a present id is accepted and
\* leaves it present, and the id is present exactly when the last successful
\* operation on it was a create or an update.
C10_LifecycleMachine ==
    /\ [](\A id \in Ids :
            Present(id) <=> lastOk[id] \in {"createPrompt", "updatePrompt"})
    /\ [][ \A id \in Ids :
             LET onId == op'.name # "listPrompts" /\ op'.name # "none" /\ op'.id = id
                 ok == outcome'.kind = "return"
             IN  /\ ~onId => Present(id)' = Present(id)
                 /\ (onId /\ op'.name = "getPrompt") => Present(id)' = Present(id)
                 /\ (onId /\ op'.name = "createPrompt") =>
                       /\ op'.fault = 0 => ok
                       /\ Present(id)' = (Present(id) \/ ok)
                 /\ (onId /\ op'.name = "updatePrompt") =>
                       /\ ~Present(id) => ~ok
                       /\ (Present(id) /\ op'.fault = 0) => ok
                       /\ Present(id)' = Present(id)
                 /\ (onId /\ op'.name = "deletePrompt") =>
                       /\ ~Present(id) => ~ok
                       /\ (Present(id) /\ op'.fault = 0) => ok
                       /\ Present(id)' = (Present(id) /\ ~ok) ]_vars

\* an id that was created, updated, deleted and is absent again, its last
\* operation an update that was rejected
C10_Witness ==
    \E id \in Ids :
        /\ lastOk[id] = "deletePrompt"
        /\ ~Present(id)
        /\ op.name = "updatePrompt"
        /\ op.id = id
        /\ outcome = Thrown(NotFound)

----------------------------------------------------------------------------
(* Claims about the merge of updatePrompt *)

\* an updatePrompt whose probe, record fetch and template pull were answered
UpdateFetched ==
    /\ op.name = "updatePrompt"
    /\ Len(calls) >= 3
    /\ calls[2].answer # Rejected
    /\ calls[3].answer # Rejected

\* what the hub held when the update read it
RemoteRecord == calls[2].answer
RemoteTemplate == calls[3].answer

Published == calls[4]

Prefer(provided, fallback) == IF provided # Undef THEN provided ELSE fallback

\* the fields the stated precedence agrees with the code on
MergedByPrecedence ==
    /\ Published.prompt.template = Prefer(op.updates.template, RemoteTemplate.template)
    /\ Published.prompt.templateFormat =
          Prefer(op.updates.templateFormat,
                 Prefer(RemoteTemplate.templateFormat, Str("mustache")))
    /\ Published.options.description =
          Prefer(op.updates.description, RemoteRecord.description)
    /\ Published.options.tags = Prefer(op.updates.tags, RemoteRecord.tags)
    /\ Published.options.readme = Prefer(op.updates.readme, RemoteRecord.readme)

\* C6 as stated: every published field is the update's value if provided,
\* else the remote value, with a default for the template format only.
C6_DefaultForFormatOnly ==
    (UpdateFetched /\ Len(calls) = 4) =>
        /\ MergedByPrecedence
        /\ Published.prompt.inputVariables =
              Prefer(op.updates.templateVariables, RemoteTemplate.inputVariables)
        /\ Published.options.isPublic =
              Prefer(op.updates.isPublic, RemoteRecord.is_public)

\* C6: every published field is the update's value if provided (a provided
\* empty string, empty list or false wins), else the remote value, else a
\* default: mustache for the format, the empty list for the variables, false
\* for the visibility.
C6_MergePrecedence ==
    (UpdateFetched /\ Len(calls) = 4) =>
        /\ MergedByPrecedence
        /\ Published.prompt.inputVariables =
              Prefer(op.updates.templateVariables,
                     Prefer(RemoteTemplate.inputVariables, Arr(<<>>)))
        /\ Published.options.isPublic =
              Prefer(op.updates.isPublic,
                     Prefer(RemoteRecord.is_public, Bool(FALSE)))

\* an update providing only falsy values over a fully populated remote
\* prompt: the empty description, the empty tag list and false are published,
\* the fields it omits keep their remote values
C6_Witness ==
    /\ UpdateFetched
    /\ Len(calls) = 4
    /\ op.updates.description = Str("") /\ RemoteRecord.description = Str("old description")
    /\ op.updates.tags = Arr(<<>>) /\ RemoteRecord.tags = Arr(<<"latest">>)
    /\ op.updates.isPublic = Bool(FALSE) /\ RemoteRecord.is_public = Bool(TRUE)
    /\ op.updates.template = Tpl(<<>>) /\ RemoteTemplate.template = HELLO
    /\ op.updates.readme = Undef
    /\ op.updates.templateVariables = Undef
    /\ Published.options.description = Str("")
    /\ Published.options.isPublic = Bool(FALSE)
    /\ Published.options.readme = Str("old readme")
    /\ Published.prompt.template = Tpl(<<>>)
    /\ Published.prompt.inputVariables = Arr(<<"name">>)

\* C7: whenever the hub's serialized template is a non-string value (object,
\* array, null, number or boolean), updatePrompt fails with
\* UnsupportedTemplateType and publishes nothing, with or without a
\* replacement template in the update.
C7_NonStringTemplateRejected ==
    (/\ UpdateFetched
     /\ RemoteTemplate.template.t \in {"object", "array", "null", "number", "boolean"})
    => /\ outcome = Thrown(UnsupportedTemplateType)
       /\ Len(calls) = 3

----------------------------------------------------------------------------
(* Claims about createPrompt *)

\* the value published for a field the definition may omit
SuppliedOr(supplied, default) == IF supplied = Undef THEN default ELSE supplied

\* C8: createPrompt publishes mustache, the empty variable list and
\* isPublic=false for the fields the definition omits and the supplied value
\* for every field it supplies; the create command run without --format,
\* --variables and --public hands the manager those same three values.
C8_CreateDefaults ==
    op.name = "createPrompt" =>
        LET definition == op.definition
            pushCall == calls[1]
        IN  /\ pushCall.fn = "push"
            /\ pushCall.prompt.template = definition.template
            /\ pushCall.prompt.templateFormat =
                  SuppliedOr(definition.templateFormat, Str("mustache"))
            /\ pushCall.prompt.inputVariables =
                  SuppliedOr(definition.templateVariables, Arr(<<>>))
            /\ pushCall.options.isPublic = SuppliedOr(definition.isPublic, Bool(FALSE))
            /\ pushCall.options.description = definition.description
            /\ pushCall.options.tags = definition.tags
            /\ pushCall.options.readme = definition.readme
            /\ (/\ cli.command = "create"
                /\ cli.flags.format = Undef
                /\ cli.flags.variables = Undef
                /\ cli.flags.public = Undef)
               => /\ definition.templateFormat = Str("mustache")
                  /\ definition.templateVariables = Arr(<<>>)
                  /\ definition.isPublic = Bool(FALSE)

\* the create command run with a template file and a description only,
\* pushCall with the three defaults
C8_Witness ==
    /\ cli.command = "create"
    /\ cli.flags.format = Undef
    /\ cli.flags.variables = Undef
    /\ cli.flags.public = Undef
    /\ cli.flags.description = Str("greets")
    /\ op.name = "createPrompt"
    /\ outcome.kind = "return"
    /\ calls[1].prompt = PromptTemplate(HELLO, Str("mustache"), Arr(<<>>))
    /\ calls[1].options.isPublic = Bool(FALSE)
    /\ calls[1].options.description = Str("greets")

\* C9: createPrompt issues no existence probe and exactly one publish in
\* every hub state; when the hub accepts the publish it succeeds, also on an
\* id that is already stored, and the hub then holds the published definition.
C9_CreateOverwrites ==
    op.name = "createPrompt" =>
        /\ Len(calls) = 1
        /\ calls[1].fn = "push"
        /\ calls[1].id = op.id
        /\ calls[1].answer # Rejected =>
              /\ outcome = Returned(Location(op.id))
              /\ hub[op.id] =
                    Stored(calls[1].prompt.template, calls[1].prompt.templateFormat,
                           calls[1].prompt.inputVariables,
                           calls[1].options.description, calls[1].options.tags,
                           calls[1].options.readme, calls[1].options.isPublic)

\* a create on an id that was already stored: it returned, and the stored
\* prompt is the new definition, not the old one
C9_Witness ==
    /\ op.name = "createPrompt"
    /\ op.existed
    /\ outcome = Returned(Location(op.id))
    /\ hub[op.id].template = HELLO
    /\ hub[op.id] # ExistingPrompt

----------------------------------------------------------------------------
(* Claims about the options of the create and update commands *)

\* the command never reached the manager: it failed with exit code 1
FailedBeforeManager ==
    /\ op = NoOp
    /\ calls = <<>>
    /\ exitCode = 1
    /\ Len(stderr) = 1

\* the errors the update action can raise before it resolves the visibility
BeforeVisibility ==
    {EitherNotBoth, FileNotFound, InvalidJson, ExpectedStringArray,
     ExpectedArrayOrObject}

\* C15: the update command given both --public and --private fails before any
\* manager or hub call, with the visibility conflict unless an option read
\* earlier already failed; --public alone updates isPublic to true, --private
\* alone to false, and with neither the update has no isPublic and the remote
\* visibility is republished.
C15_VisibilityFlags ==
    cli.command = "update" =>
        LET public == cli.flags.public = Bool(TRUE)
            private == cli.flags.private = Bool(TRUE)
        IN  /\ (public /\ private) =>
                  /\ FailedBeforeManager
                  /\ stderr[1] \in BeforeVisibility \cup {VisibilityConflict}
            /\ stderr = <<VisibilityConflict>> => (public /\ private)
            /\ op.name = "updatePrompt" =>
                  /\ (public /\ ~private) => op.updates.isPublic = Bool(TRUE)
                  /\ (private /\ ~public) => op.updates.isPublic = Bool(FALSE)
                  /\ (~public /\ ~private) =>
                        /\ op.updates.isPublic = Undef
                        /\ Len(calls) = 4 =>
                              Published.options.isPublic = RemoteRecord.is_public

\* update --description ... --public --private on an existing prompt: rejected
\* with the conflict, nothing asked of the hub
C15_Witness ==
    /\ cli.command = "update"
    /\ cli.flags.public = Bool(TRUE)
    /\ cli.flags.private = Bool(TRUE)
    /\ cli.flags.description = Str("new description")
    /\ hub["org/p"] = ExistingPrompt
    /\ stderr = <<VisibilityConflict>>
    /\ FailedBeforeManager

\* the value of --variables as JSON.parse gave it
VariablesValue == JsonParse(cli.flags.variables.s)

\* the shapes the normalization is said to accept
IsNamedEntry(entry) ==
    \/ entry.t = "string"
    \/ /\ entry.t = "object"
       /\ \/ FieldOf(entry, "name").t = "string"
          \/ FieldOf(entry, "key").t = "string"

AcceptedShape(value) ==
    \/ value.t = "array" /\ \A i \in 1..Len(value.entries) : IsNamedEntry(value.entries[i])
    \/ value.t = "object"

\* the names of the entries of an array of an accepted shape
EntryNames(value) ==
    [i \in 1..Len(value.entries) |->
        LET entry == value.entries[i]
        IN  IF entry.t = "string" THEN entry.s
            ELSE IF FieldOf(entry, "name").t = "string"
            THEN FieldOf(entry, "name").s
            ELSE FieldOf(entry, "key").s]

\* the variables the command handed to the manager
HandedVariables ==
    IF op.name = "createPrompt" THEN op.definition.templateVariables
    ELSE op.updates.templateVariables

ReachedManager == op.name \in {"createPrompt", "updatePrompt"}

\* the run's --variables option was given and is JSON
VariablesGiven ==
    /\ cli.command \in {"create", "update"}
    /\ cli.flags.variables # Undef
    /\ VariablesValue # Undef

ShapeErrors == {ExpectedStringArray, ExpectedArrayOrObject}

\* an accepted shape is never reported as a shape error, a rejected one
\* fails the command before the manager is called
ShapesAcceptedAndRejected ==
    IF AcceptedShape(VariablesValue)
    THEN exitCode = 1 => stderr[1] \notin ShapeErrors
    ELSE /\ FailedBeforeManager
         /\ stderr[1] \in ShapeErrors \cup {EitherNotBoth, FileNotFound, TemplateRequired}

\* C16 as stated: --variables JSON that is an array of strings is used
\* unchanged, an array of objects gives each name (or key when name is not a
\* string) in array order, a single object gives its keys in insertion order;
\* every other shape fails and no manager call is made.
C16_KeysInInsertionOrder ==
    VariablesGiven =>
        /\ ShapesAcceptedAndRejected
        /\ (AcceptedShape(VariablesValue) /\ ReachedManager) =>
              HandedVariables =
                 Arr(IF VariablesValue.t = "object" THEN VariablesValue.keys
                     ELSE EntryNames(VariablesValue))

IsIndexKey(k) == \E i \in 1..Len(IndexKeys) : k = IndexKeys[i]
IndexOfKey(k) == CHOOSE i \in 1..Len(IndexKeys) : k = IndexKeys[i]
InsertedAt(value, k) == CHOOSE i \in 1..Len(value.keys) : value.keys[i] = k

\* names are the keys of the object: its index-like keys in ascending numeric
\* order, then its other keys in insertion order
KeysIndexFirst(names, value) ==
    /\ Len(names) = Len(value.keys)
    /\ \A i \in 1..Len(value.keys) : \E j \in 1..Len(names) : names[j] = value.keys[i]
    /\ \A i \in 1..Len(names) : \A j \in 1..Len(names) :
          i < j =>
             /\ IsIndexKey(names[j]) => IsIndexKey(names[i])
             /\ (IsIndexKey(names[i]) /\ IsIndexKey(names[j])) =>
                   IndexOfKey(names[i]) < IndexOfKey(names[j])
             /\ (~IsIndexKey(names[i]) /\ ~IsIndexKey(names[j])) =>
                   InsertedAt(value, names[i]) < InsertedAt(value, names[j])

\* C16: --variables JSON that is an array of strings is used unchanged, an
\* array of objects gives each name (or key when name is not a string) in
\* array order, a single object gives its keys: the index-like keys in
\* ascending numeric order, then the other keys in insertion order; every
\* other shape fails and no manager call is made.
C16_VariableShapes ==
    VariablesGiven =>
        /\ ShapesAcceptedAndRejected
        /\ (AcceptedShape(VariablesValue) /\ ReachedManager) =>
              /\ HandedVariables.t = "array"
              /\ IF VariablesValue.t = "object"
                 THEN KeysIndexFirst(HandedVariables.xs, VariablesValue)
                 ELSE HandedVariables.xs = EntryNames(VariablesValue)

\* update --variables '{"b":1,"1":2,"0":3}' published with the variables
\* 0, 1, b
C16_Witness ==
    /\ cli.command = "update"
    /\ cli.flags.variables = Str("{\"b\":1,\"1\":2,\"0\":3}")
    /\ op.name = "updatePrompt"
    /\ outcome.kind = "return"
    /\ Published.prompt.inputVariables = Arr(<<"0", "1", "b">>)

\* the template the command handed to the manager
HandedTemplate ==
    IF op.name = "createPrompt" THEN op.definition.template
    ELSE op.updates.template

\* C17: with both --template and --template-file supplied, whatever the inline
\* value, the command fails with a validation error and makes no manager
\* call; with one supplied that source's text is the template; with neither,
\* create fails (template required) and update omits the template.
C17_TemplateSource ==
    cli.command \in {"create", "update"} =>
        LET inline == cli.flags.template
            file == cli.flags.templateFile
            reached == ReachedManager
        IN  /\ (inline # Undef /\ file # Undef) =>
                  FailedBeforeManager /\ stderr[1] = EitherNotBoth
            /\ (inline # Undef /\ file = Undef /\ reached) => HandedTemplate = inline
            /\ (inline = Undef /\ file # Undef /\ reached) =>
                  HandedTemplate = ReadFile(file).value
            /\ (inline = Undef /\ file = Undef) =>
                  IF cli.command = "create"
                  THEN FailedBeforeManager /\ stderr[1] = TemplateRequired
                  ELSE reached => HandedTemplate = Undef

----------------------------------------------------------------------------
(* Claims about credential resolution *)

\* the credential levels of the request handled, highest first: the per-call
\* override, the bearer token (remote transports), the environment
CredentialLevels ==
    IF cli # NoCommand THEN <<cli.apiKey, env>>
    ELSE IF mcp # NoTool THEN <<mcp.args.apiKey, mcp.bearer, env>>
    ELSE <<Undef, Undef, env>>

RequestHandled == cli # NoCommand \/ mcp # NoTool \/ rpc # NoMessage

\* the request ended with the missing-credential error
MissingCredentialRaised ==
    \/ cli # NoCommand /\ stderr = <<MissingApiKey>> /\ exitCode = 1
    \/ mcp # NoTool /\ mcp.result = Thrown(MissingApiKey)
    \/ /\ rpc # NoMessage
       /\ "error" \in DOMAIN rpc.response
       /\ rpc.response.error.message = Str(MissingApiKey)

\* a level holds a key: a string that is neither empty nor only whitespace
HoldsKey(level) == level \notin {Undef, Str(""), Str("  ")}

\* the key without the whitespace around it
KeyOf(level) == IF level = Str(" bearer-key ") THEN Str("bearer-key") ELSE level

\* C12: at every transport the key handed to the manager is the per-call
\* override if it holds a key, else the bearer token if it holds one, else the
\* environment value, and the missing-credential error is raised exactly when
\* no level holds a non-empty key: an empty or whitespace-only higher level
\* never blocks a key at a lower level.
C12_CredentialPrecedence ==
    RequestHandled =>
        LET holding == SelectSeq(CredentialLevels, HoldsKey)
        IN  /\ MissingCredentialRaised <=> holding = <<>>
            /\ holding # <<>> =>
                  /\ op # NoOp
                  /\ op.apiKey \in {holding[1], KeyOf(holding[1])}

\* no level holds anything: each is absent or the empty string
NoCredential ==
    \A i \in 1..Len(CredentialLevels) : CredentialLevels[i] \in {Undef, Str("")}

\* C13: at each transport a request without any credential fails with the
\* missing-credential error before a manager operation or hub call is made;
\* the command-line tool also prints the message and sets exit code 1.
C13_MissingCredentialFailsFast ==
    (RequestHandled /\ NoCredential) =>
        /\ MissingCredentialRaised
        /\ op = NoOp
        /\ calls = <<>>

----------------------------------------------------------------------------
(* Claims about the JSON-RPC endpoint *)

\* the code of the error in the last response, 0 when it carries none
ResponseCode ==
    IF "error" \in DOMAIN rpc.response THEN rpc.response.error.code.n ELSE 0

\* the method and the id of the JSON value the last message held
PostedMethod == Member(rpc.message.value, "method")
PostedId == Member(rpc.message.value, "id")

\* the handler of tools/call threw: it ended before it reached the manager,
\* or the manager raised
HandlerThrew ==
    /\ PostedMethod = Str("tools/call")
    /\ op = NoOp \/ outcome.kind = "throw"

\* C18: handleMessage answers -32700 exactly for a message that is not
\* valid JSON, -32601 exactly for valid JSON whose method is neither
\* tools/list nor tools/call, -32603 exactly when the handler of a
\* recognised method throws, and never any other code
C18_ReservedCodes ==
    rpc # NoMessage =>
        /\ ResponseCode \in {0, ParseError, MethodNotFound, InternalError}
        /\ (ResponseCode = ParseError) <=> ~rpc.message.json
        /\ (ResponseCode = MethodNotFound) <=>
              /\ rpc.message.json
              /\ PostedMethod \notin {Str("tools/list"), Str("tools/call")}
        /\ (ResponseCode = InternalError) <=>
              (rpc.message.json /\ HandlerThrew)

\* C19: every response carries jsonrpc "2.0", exactly one of result and
\* error, and an id member equal to the id of the request it answers, null
\* for a parse error and only then
C19_ResponseEnvelope ==
    rpc # NoMessage =>
        LET response == rpc.response
        IN  /\ "jsonrpc" \in DOMAIN response
            /\ response.jsonrpc = Str("2.0")
            /\ ("result" \in DOMAIN response) # ("error" \in DOMAIN response)
            /\ "id" \in DOMAIN response
            /\ IF ResponseCode = ParseError
               THEN response.id = Null
               ELSE response.id = PostedId

----------------------------------------------------------------------------
(* Claims about the three transports taken together *)

Transports == {"cli", "mcp", "rpc"}

\* two transports were asked the same operation with the same arguments
\* while the hub held the same prompts
SameRequest(a, b) ==
    /\ a # NotSeen
    /\ b # NotSeen
    /\ a.request = b.request
    /\ a.saw = b.saw

\* the same manager operation, followed by the same hub calls carrying the
\* same published definition
SameCall(a, b) == a.op.name = b.op.name /\ a.calls = b.calls

\* C14: for the same operation, the same arguments and the same hub state,
\* the command, the MCP tool and the JSON-RPC tool make the same manager
\* call with the same definition or update and end in the same outcome
\* class
C14_TransportsEquivalent ==
    \A a, b \in Transports :
        SameRequest(seen[a], seen[b]) =>
            /\ SameCall(seen[a], seen[b])
            /\ seen[a].ok = seen[b].ok

\* value is the object { id, variables, prompt }, in that order, built from
\* the request a transport handled and the string getPrompt returned to it
IsShowObject(value, handled) ==
    /\ value.t = "object"
    /\ "keys" \in DOMAIN value
    /\ value.keys = <<"id", "variables", "prompt">>
    /\ value.fields.id = Str(handled.request.promptId)
    /\ value.fields.variables = RenderValues(handled.request.variables)
    /\ value.fields.prompt = handled.outcome.value

\* show --json printed its result
CliShowedJson ==
    /\ seen.cli # NotSeen
    /\ cli.command = "show"
    /\ cli.flags.json
    /\ exitCode = 0

\* prompt_show with asJson returned its result
McpShowedJson ==
    /\ seen.mcp # NotSeen
    /\ mcp.tool = "prompt_show"
    /\ ~IsFalsy(mcp.args.asJson)
    /\ mcp.result.kind = "return"

\* get_prompt returned its result, which the endpoint gives as JSON text
RpcShowedJson ==
    /\ seen.rpc # NotSeen
    /\ seen.rpc.request.operation = "show"
    /\ "result" \in DOMAIN rpc.response

\* C20: every JSON response for show is the object { id, variables, prompt }
\* in that order, with the requested id, the supplied variables (the empty
\* map when none) and the string getPrompt returned, at every transport
\* that returns show results as JSON
C20_ShowJsonShape ==
    /\ CliShowedJson =>
          /\ Len(stdout) = 1
          /\ IsShowObject(stdout[1], seen.cli)
    /\ McpShowedJson => IsShowObject(mcp.result.value, seen.mcp)
    /\ RpcShowedJson =>
          IsShowObject(rpc.response.result.entries[1].text.json, seen.rpc)

----------------------------------------------------------------------------
(* Claims about the tools of the JSON-RPC endpoint *)

\* the params of the last message, and the tool and arguments they name
PostedParams == Member(rpc.message.value, "params")
PostedTool == Member(PostedParams, "name")
PostedArguments == Member(PostedParams, "arguments")

\* the last message was a tools/call request naming this tool
ToolPosted(name) ==
    /\ rpc # NoMessage
    /\ rpc.message.json
    /\ PostedMethod = Str("tools/call")
    /\ PostedTool = Str(name)

\* C22: tools/call of list_prompts without an arguments member is served as
\* a list call with no query and answered with a result
C22_ListWithoutArguments ==
    (ToolPosted("list_prompts") /\ PostedArguments = Undef) =>
        /\ "result" \in DOMAIN rpc.response
        /\ op.name = "listPrompts"
        /\ op.query = Undef

\* the manager served the last message and returned a value
ManagerReturned ==
    /\ rpc # NoMessage
    /\ op # NoOp
    /\ outcome.kind = "return"

\* C30: a successful delete_prompt call is answered with the JSON text of
\* { success: true }, and whenever the manager returned a value the
\* endpoint answers with the envelope its serverless variant gives for the
\* same request and the same value
C30_VariantsAgree ==
    /\ (ToolPosted("delete_prompt") /\ ManagerReturned) =>
          /\ "result" \in DOMAIN rpc.response
          /\ rpc.response.result = ToolCallResult(SuccessObject)
    /\ ManagerReturned =>
          rpc.response = ApiResultResponse(PostedId, PostedTool, outcome.value)

----------------------------------------------------------------------------
(* Claims about one run of a command or one call of a tool *)

\* a command was run and ended on one of its error paths: an error thrown
\* before the manager was called, an error thrown by the manager, or show
\* finding no prompt to print
HitHandledError ==
    \/ op = NoOp
    \/ outcome.kind = "throw"
    \/ cli.command = "show" /\ outcome.kind = "return" /\ IsFalsy(outcome.value)

\* C21: a command run that starts with exit code 0 ends with exit code 1 and
\* its error message on stderr if it hit a handled error, and with exit code
\* 0 if it succeeded; every error thrown in the action is handled
C21_ExitCodes ==
    cli # NoCommand =>
        IF HitHandledError
        THEN /\ exitCode = 1
             /\ Len(stderr) = 1
             /\ outcome.kind = "throw" => stderr = <<outcome.error>>
        ELSE /\ exitCode = 0
             /\ stderr = <<>>

C21_Witness ==
    /\ cli # NoCommand
    /\ cli.command = "delete"
    /\ outcome = Thrown(NotFound)
    /\ exitCode = 1
    /\ stderr = <<NotFound>>

\* the update command was run, or the update tool called, with no field
UpdateFields ==
    {"template", "templateFile", "format", "variables", "tags", "description",
     "readme", "readmeFile", "public", "private", "isPublic"}

NoFieldSupplied(options) ==
    \A field \in DOMAIN options \cap UpdateFields : options[field] = Undef

EmptyUpdateRun ==
    cli # NoCommand /\ cli.command = "update" /\ NoFieldSupplied(cli.flags)

EmptyUpdateCall ==
    mcp # NoTool /\ mcp.tool = "prompt_update" /\ NoFieldSupplied(mcp.args)

\* the command rejected the update before it created a manager
RunRejectedEmpty ==
    /\ stderr = <<NothingToUpdate>>
    /\ exitCode = 1
    /\ op = NoOp
    /\ calls = <<>>

\* updatePrompt is never handed an update without fields
NeverEmptyUpdate ==
    (cli # NoCommand \/ mcp # NoTool) /\ op # NoOp /\ op.name = "updatePrompt"
        => \E field \in DOMAIN op.updates : op.updates[field] # Undef

\* C28 as stated: an update without fields is rejected with the
\* nothing-to-update error before a manager is created and before any hub
\* call, by the update command and by the prompt_update tool alike
C28_RejectedBeforeManager ==
    /\ EmptyUpdateRun => RunRejectedEmpty
    /\ EmptyUpdateCall =>
          /\ mcp.result = Thrown(NothingToUpdate)
          /\ ~mcp.manager
          /\ op = NoOp
          /\ calls = <<>>
    /\ NeverEmptyUpdate

\* C28: an update without fields never reaches updatePrompt nor the hub; the
\* command rejects it before it resolves a credential or creates a manager,
\* the tool after it resolved the credential and created its manager, so
\* that without a credential the tool reports the missing credential
C28_EmptyUpdateRejected ==
    /\ EmptyUpdateRun => RunRejectedEmpty
    /\ EmptyUpdateCall =>
          /\ op = NoOp
          /\ calls = <<>>
          /\ IF IsFalsy(env)
             THEN mcp.result = Thrown(MissingApiKey) /\ ~mcp.manager
             ELSE mcp.result = Thrown(NothingToUpdate) /\ mcp.manager
    /\ NeverEmptyUpdate

C28_Witness ==
    /\ EmptyUpdateCall
    /\ mcp.result = Thrown(NothingToUpdate)
    /\ mcp.manager
    /\ hub["org/p"].exists

\* getPrompt returned null because its probe reported the prompt absent
ProbedAbsent ==
    /\ outcome = AbsentPrompt
    /\ calls = <<Probe(hub, op.id, FALSE)>>
    /\ ~HubExists(hub, op.id)

\* C29: show and prompt_show report "not found" exactly when getPrompt
\* returned null because the probe reported the prompt absent, and give the
\* rendered string of every existing prompt, the empty string included, as
\* a success
C29_NotFoundOnlyWhenAbsent ==
    /\ (cli # NoCommand /\ cli.command = "show" /\ op # NoOp) =>
          /\ (stderr = <<PromptNotFound>>) <=> ProbedAbsent
          /\ (outcome.kind = "return" /\ ~ProbedAbsent) =>
                /\ exitCode = 0
                /\ stdout # <<>>
    /\ (mcp # NoTool /\ mcp.tool = "prompt_show" /\ op # NoOp) =>
          /\ (mcp.result = Thrown(PromptNotFound)) <=> ProbedAbsent
          /\ (outcome.kind = "return" /\ ~ProbedAbsent) =>
                mcp.result.kind = "return"

----------------------------------------------------------------------------
(* Claims about failing hub calls *)

\* the i-th hub call of the last operation failed
HubCallFailed(i) ==
    IF calls[i].fn = "listPrompts" THEN op.fault = 1
    ELSE calls[i].answer = Rejected

\* C27: an operation issues each kind of hub call at most once, and when a
\* hub call fails it raises that error to its caller, never a value, and
\* issues no publish or delete after the failure
C27_NoRetryNoRecovery ==
    op # NoOp =>
        /\ \A i, j \in DOMAIN calls : calls[i].fn = calls[j].fn => i = j
        /\ \A i \in DOMAIN calls :
              HubCallFailed(i) =>
                 /\ outcome = Thrown(TransportError)
                 /\ \A j \in DOMAIN calls :
                       j > i => calls[j].fn \notin {"push", "deletePrompt"}


----------------------------------------------------------------------------
(* Claims about concurrent invocations *)

Finished(p, name) == running[p].name = name /\ running[p].pc = "done"

\* the hub held the id when the probe of p was served and no longer held
\* it when the next call of p was served
RemovedAfterProbe(p) ==
    /\ Len(running[p].present) = 2
    /\ running[p].present[1]
    /\ ~running[p].present[2]

\* C23: a getPrompt whose probe answered present and whose pull was served
\* after the prompt was removed ends with a raised transport error, not
\* with null; every getPrompt ends with the rendered string, with null or
\* with a raised error
C23_GetPromptRace ==
    \A p \in Invokers :
       Finished(p, "getPrompt") =>
          /\ RemovedAfterProbe(p) => running[p].outcome = Thrown(TransportError)
          /\ \/ running[p].outcome = Returned(Null)
             \/ running[p].outcome.kind = "throw"
             \/ /\ running[p].outcome.kind = "return"
                /\ running[p].outcome.value.t = "string"

\* a deletePrompt removed the prompt between the probe and the pull of a
\* getPrompt on the same id
C23_Witness ==
    \E p, q \in Invokers :
       /\ Finished(p, "getPrompt")
       /\ RemovedAfterProbe(p)
       /\ running[p].outcome.kind = "throw"
       /\ Finished(q, "deletePrompt")
       /\ running[q].id = running[p].id
       /\ running[q].outcome = Returned(Undef)

\* p ran updatePrompt and reported success
UpdateSucceeded(p) ==
    /\ Finished(p, "updatePrompt")
    /\ running[p].outcome = Returned(Location(running[p].id))

\* p and q update the same id, both probes answered present and both
\* fetched the same record and the same template
SameRemoteState(p, q) ==
    /\ running[p].name = "updatePrompt"
    /\ running[q].name = "updatePrompt"
    /\ running[p].id = running[q].id
    /\ running[p].calls[1].answer = Bool(TRUE)
    /\ running[q].calls[1].answer = Bool(TRUE)
    /\ running[p].record = running[q].record
    /\ running[p].template = running[q].template

\* the stored definition after inv published the merge of what it fetched
PublishOf(inv) ==
    LET merged == MergeUpdate(inv.updates, inv.record, inv.template,
                              Serialize(inv.template, TRUE))
    IN  Stored(merged.prompt.template, merged.prompt.templateFormat,
               merged.prompt.inputVariables, merged.options.description,
               merged.options.tags, merged.options.readme, merged.options.isPublic)

\* the fields of the stored definition that only the update of q changes
\* hold what p fetched
Reverted(stored, p, q) ==
    /\ (running[q].updates.description # Undef
        /\ running[p].updates.description = Undef)
          => stored.description = running[p].record.description
    /\ (running[q].updates.template # Undef /\ running[p].updates.template = Undef)
          => stored.template = running[p].template.template

\* C24: when two updatePrompt calls on one id passed their probes and read
\* the same remote state, and one has published, the publish of the other
\* succeeds too and leaves exactly its own merged definition in the hub: a
\* field only the earlier update changed is back at the value read before
C24_LastPublishWins ==
    [][\A p, q \in Invokers :
          (/\ p # q
           /\ running[p].pc = "push"
           /\ running'[p].pc = "done"
           /\ UpdateSucceeded(q)
           /\ SameRemoteState(p, q))
          => /\ running'[p].outcome = Returned(Location(running[p].id))
             /\ running'[q] = running[q]
             /\ hub'[running[p].id] = PublishOf(running[p])
             /\ Reverted(hub'[running[p].id], p, q)]_vars

\* both updates reported success and the new description of one of them is
\* gone from the hub
C24_Witness ==
    \E p, q \in Invokers :
       /\ p # q
       /\ UpdateSucceeded(p)
       /\ UpdateSucceeded(q)
       /\ SameRemoteState(p, q)
       /\ running[q].updates.description = Str("new description")
       /\ running[p].updates.description = Undef
       /\ hub[running[p].id].exists
       /\ hub[running[p].id].description = Str("old description")
       /\ hub[running[p].id].template = HELLO

\* every hub call an invocation made names the id it was invoked with
CallsAddressed ==
    \A p \in Invokers :
       running[p].name # "none" =>
          \A i \in 1..Len(running[p].calls) :
             running[p].calls[i].id = running[p].id

\* what the hub holds under an id changes only in a step of an invocation
\* on that id
OnlyOwnIdChanges ==
    \A id \in Ids :
       hub'[id] # hub[id] =>
          \E p \in Invokers :
             /\ running[p].name # "none"
             /\ running[p].id = id
             /\ running'[p] # running[p]
             /\ \A q \in Invokers \ {p} : running'[q] = running[q]

\* C25: every hub call of an operation invoked with an id is addressed to
\* that id, and in every interleaving an id's stored definition and presence
\* change only by operations invoked on it
C25_IndependentIds == []CallsAddressed /\ [][OnlyOwnIdChanges]_vars

\* a delete of one id and an update of the other both took effect, each on
\* its own id
C25_Witness ==
    \E p, q \in Invokers :
       /\ Finished(p, "deletePrompt")
       /\ running[p].outcome = Returned(Undef)
       /\ UpdateSucceeded(q)
       /\ running[q].id # running[p].id
       /\ ~hub[running[p].id].exists
       /\ hub[running[q].id] = PublishOf(running[q])

\* the i-th hub call of p is the publish of an updatePrompt or the delete
\* call of a deletePrompt
ActingCall(p, i) ==
    \/ running[p].name = "updatePrompt" /\ running[p].calls[i].fn = "push"
    \/ running[p].name = "deletePrompt" /\ running[p].calls[i].fn = "deletePrompt"

\* C26: updatePrompt never publishes to an id the hub does not hold at the
\* moment of the publish, and deletePrompt never issues its delete call for
\* an id the hub does not hold at that moment
C26_ActsOnlyOnPresent ==
    \A p \in Invokers :
       running[p].name # "none" =>
          \A i \in 1..Len(running[p].calls) :
             ActingCall(p, i) => running[p].present[i]

\* C26 as the code has it: every publish of updatePrompt and every delete
\* call of deletePrompt follows a probe of the same invocation that answered
\* present; when the id is gone by the time the call is served, the publish
\* succeeds and stores the merged definition anew, and the delete call is
\* rejected and raised as a transport error
C26_ProbedBeforeActing ==
    \A p \in Invokers :
       running[p].name # "none" =>
          \A i \in 1..Len(running[p].calls) :
             ActingCall(p, i) =>
                /\ i > 1
                /\ running[p].calls[1].fn = "promptExists"
                /\ running[p].calls[1].answer = Bool(TRUE)
                /\ running[p].present[1]
                /\ (running[p].calls[i].fn = "push" /\ ~running[p].present[i])
                      => running[p].outcome = Returned(Location(running[p].id))
                /\ (running[p].calls[i].fn = "deletePrompt" /\ ~running[p].present[i])
                      => /\ running[p].calls[i].answer = Rejected
                         /\ running[p].outcome = Thrown(TransportError)

\* an updatePrompt published after a deletePrompt had removed the prompt,
\* and the prompt is in the hub again
C26_Witness ==
    \E p, q \in Invokers :
       /\ UpdateSucceeded(p)
       /\ ~running[p].present[Len(running[p].present)]
       /\ Finished(q, "deletePrompt")
       /\ running[q].id = running[p].id
       /\ running[q].outcome = Returned(Undef)
       /\ hub[running[p].id] = PublishOf(running[p])

============================================================================
